---- MODULE Spec2Model ----
(***************************************************************************)
(* Model of semantiaz' semantic-model core                                 *)
(* (src/src/semantiaz/models/semantic_model.py):                           *)
(*   - the SemanticModel aggregate and its first-write-wins inserts,       *)
(*   - the SemanticModelBuilder state machine and its validation pass,     *)
(*   - the VerifiedQuery constructor with its two field validators,        *)
(*   - to_yaml / from_yaml_string: model_dump, the YAML writer and loader, *)
(*     and the validation of the loaded document,                          *)
(* and of the ontology converter                                           *)
(* (src/src/semantiaz/converters/rdf_semantic_converter.py):               *)
(*   - load_rdf_string with the extraction of classes and properties,      *)
(*   - the two datatype mappings and get_ontology_stats,                   *)
(*   - convert_to_semantic_model and convert_from_semantic_model.          *)
(* The converter is run against the classes of semantic_model.py; the name *)
(* LogicalTable it imports stands for the class Table of that module.      *)
(*                                                                         *)
(* Python values are represented as follows.                               *)
(*   None for a str | None field ........ the string NoneVal               *)
(*   None for an object/int | None field  the empty tuple <<>>, a present  *)
(*                                        value x being <<x>>              *)
(*   list ............................... a sequence                       *)
(*   object identity of a SemanticModel . its index in builder.models      *)
(*                                        (models are only ever appended)  *)
(*   an f-string ........................ the tuple of its parts           *)
(*   a str of the converter ............. the sequence of its pieces, a     *)
(*                                        piece being a character wherever *)
(*                                        the code looks inside the str;   *)
(*                                        None is NoneStr                  *)
(*   a dict of the converter ............ the sequence of its <<key,        *)
(*                                        value>> pairs, in insertion order*)
(*   an rdflib Graph .................... the sequence of its triples      *)
(***************************************************************************)
EXTENDS Integers, Sequences, FiniteSets, TLC

VARIABLES
    models,         \* SemanticModelBuilder.models
    current_model,  \* SemanticModelBuilder.current_model: 0 is None, else an index of models
    result,         \* outcome of the last call on the builder: what it raised or returned
    accepted,       \* history: per model, the calls that returned normally while it was current
    vq_objects,     \* the VerifiedQuery objects constructed so far
    vq_result,      \* outcome of the last VerifiedQuery(...) construction
    yaml_content,   \* the document the last to_yaml call returned, with the model it was called on
    yaml_result,    \* outcome of the last SemanticModel.from_yaml_string(...) call
    classes,        \* RDFSemanticConverter.classes
    properties,     \* RDFSemanticConverter.properties
    graph,          \* RDFSemanticConverter.graph: the triples parsed into it so far
    rdf_result      \* outcome of the last call on the converter

vars == <<models, current_model, result, accepted, vq_objects, vq_result,
          yaml_content, yaml_result, classes, properties, graph, rdf_result>>

builder_vars == <<models, current_model, result, accepted>>

vq_vars == <<vq_objects, vq_result>>

yaml_vars == <<yaml_content, yaml_result>>

rdf_vars == <<classes, properties, graph, rdf_result>>

\* ------------------------------------------------------------------ bounds

\* Total number of objects (models, tables, dimensions, relationships,
\* metrics, verified queries) a builder may hold.
MaxSize == 4

\* Number of distinct VerifiedQuery objects kept after their construction.
MaxObjects == 1

\* Number of triples the converter's graph holds.
MaxTriples == 9

\* ------------------------------------------------------------------ inputs

NoneVal == "<None>"

ModelNames == {"m1", "m2"}

TableNames == {"a", "b"}

\* names of the tables added by a call on the model itself
DirectTableNames == {"a"}

DimensionNames == {"x"}

RelationshipNames == {"r1", "r2"}

MetricNames == {"m"}

\* primary_key argument of SemanticModelBuilder.add_table: None or ["id"]
PrimaryKeyArgs == {<<>>, << <<"id">> >>}

\* (left_table, right_table) arguments of SemanticModelBuilder.add_relationship
RelationshipEnds == {<<"a", "b">>, <<"a", "a">>}

\* (relationship_type, join_type) arguments of SemanticModelBuilder.add_relationship:
\* the parameter defaults, and the spelling the Relationship entity accepts
RelationshipKindArgs == {<<"MANY_TO_ONE", "INNER">>, <<"many_to_one", "inner">>}

\* expr argument of add_metric
MetricExprArgs == {"", "e"}

\* str(x) as used by f-strings
Str(x) == IF x = NoneVal THEN "None" ELSE x

RECURSIVE SeqSum(_)
SeqSum(s) == IF s = <<>> THEN 0 ELSE Head(s) + SeqSum(Tail(s))

Range(s) == {s[i] : i \in 1..Len(s)}

\* ------------------------------------------------------------------ entities

BaseTable(database, schema, table) ==
    [database |-> database, schema |-> schema, table |-> table]

Columns(columns) == [columns |-> columns]

Dimension(name, data_type, description, expr, unique, synonyms) ==
    [name |-> name, synonyms |-> synonyms, description |-> description, expr |-> expr,
     data_type |-> data_type, unique |-> unique, is_enum |-> FALSE]

\* Table(...): dimensions defaults to a fresh empty list
Table(name, description, base_table, primary_key) ==
    [name |-> name, description |-> description, base_table |-> base_table,
     primary_key |-> primary_key, dimensions |-> <<>>]

Metric(name, expr, description) ==
    [name |-> name, description |-> description, access_modifier |-> "public_access",
     expr |-> expr]

RelationshipColumn(left_column, right_column) ==
    [left_column |-> left_column, right_column |-> right_column]

JoinTypes == {"left_outer", "inner"}

RelationshipTypes == {"one_to_one", "many_to_one"}

\* Whether Relationship(...) passes the Literal[...] checks of its two enumerated fields
RelationshipValid(join_type, relationship_type) ==
    join_type \in JoinTypes /\ relationship_type \in RelationshipTypes

Relationship(name, left_table, right_table, relationship_columns, relationship_type, join_type) ==
    [name |-> name, left_table |-> left_table, right_table |-> right_table,
     relationship_columns |-> relationship_columns, join_type |-> join_type,
     relationship_type |-> relationship_type]

\* custom_instructions is None (<<>>) or one ModuleCustomInstructions
SemanticModel(name, description) ==
    [name |-> name, description |-> description, tables |-> <<>>, relationships |-> <<>>,
     metrics |-> <<>>, verified_queries |-> <<>>, custom_instructions |-> <<>>]

\* ------------------------------------------------------------------ SemanticModel

\* a scan that never finds the name
NameExists_never(items, name) == FALSE

\* the existence scan shared by the three inserts: some element already has this name
NameExists(items, name) == \E i \in 1..Len(items) : items[i].name = name

\* a lookup that falls back to the first element when the name is missing
FirstIndex_fallback(items, name) ==
    IF NameExists(items, name)
    THEN CHOOSE i \in 1..Len(items) :
            /\ items[i].name = name
            /\ \A j \in 1..(i - 1) : items[j].name # name
    ELSE IF items # <<>> THEN 1 ELSE 0

\* next((t for t in tables if t.name == name), None): index of the first match, 0 for None
FirstIndex(items, name) ==
    IF NameExists(items, name)
    THEN CHOOSE i \in 1..Len(items) :
            /\ items[i].name = name
            /\ \A j \in 1..(i - 1) : items[j].name # name
    ELSE 0

\* an insert that overwrites the stored table of the same name
SemanticModel_add_table_overwrite(model, table) ==
    IF NameExists(model.tables, table.name)
    THEN [model EXCEPT !.tables[FirstIndex(model.tables, table.name)] = table]
    ELSE [model EXCEPT !.tables = Append(@, table)]


SemanticModel_add_table(model, table) ==
    IF NameExists(model.tables, table.name)
    THEN model
    ELSE [model EXCEPT !.tables = Append(@, table)]

\* an insert that appends whatever the model holds
SemanticModel_add_relationship_always(model, relationship) ==
    [model EXCEPT !.relationships = Append(@, relationship)]

SemanticModel_add_relationship(model, relationship) ==
    IF NameExists(model.relationships, relationship.name)
    THEN model
    ELSE [model EXCEPT !.relationships = Append(@, relationship)]

\* an insert that skips the scan for a metric without a name
SemanticModel_add_metric_unnamed_appends(model, metric) ==
    IF metric.name # NoneVal /\ NameExists(model.metrics, metric.name)
    THEN model
    ELSE [model EXCEPT !.metrics = Append(@, metric)]

SemanticModel_add_metric(model, metric) ==
    IF NameExists(model.metrics, metric.name)
    THEN model
    ELSE [model EXCEPT !.metrics = Append(@, metric)]

\* ------------------------------------------------------------------ sizes

ModelSize(model) ==
    1 + Len(model.tables) + Len(model.relationships) + Len(model.metrics)
      + Len(model.verified_queries)
      + SeqSum([i \in 1..Len(model.tables) |-> Len(model.tables[i].dimensions)])

\* ------------------------------------------------------------------ integers

\* A Python int of any magnitude: a sign and its decimal digits, most significant
\* first and without leading zeros (zero is the empty digit sequence).
PyInt(neg, digits) == [neg |-> neg, digits |-> digits]

RECURSIVE StripLeadingZeros(_)
StripLeadingZeros(ds) ==
    IF ds = <<>> THEN <<>>
    ELSE IF Head(ds) = 0 THEN StripLeadingZeros(Tail(ds)) ELSE ds

\* a < b for two digit sequences without leading zeros
RECURSIVE DigitsLess(_, _)
DigitsLess(a, b) ==
    IF Len(a) # Len(b) THEN Len(a) < Len(b)
    ELSE IF a = <<>> THEN FALSE
    ELSE IF Head(a) # Head(b) THEN Head(a) < Head(b)
    ELSE DigitsLess(Tail(a), Tail(b))

\* a <= b for two ints
IntLeq(a, b) ==
    IF a.neg /\ ~b.neg THEN TRUE
    ELSE IF ~a.neg /\ b.neg THEN FALSE
    ELSE IF a.neg THEN ~DigitsLess(a.digits, b.digits)
    ELSE ~DigitsLess(b.digits, a.digits)

\* ------------------------------------------------------------------ strings

\* A Python str is the sequence of its characters.
DigitChars == {"0", "1", "2", "3", "4", "5", "6", "7", "8", "9"}

DigitOf(c) ==
    CASE c = "0" -> 0 [] c = "1" -> 1 [] c = "2" -> 2 [] c = "3" -> 3 [] c = "4" -> 4
      [] c = "5" -> 5 [] c = "6" -> 6 [] c = "7" -> 7 [] c = "8" -> 8 [] c = "9" -> 9

\* str.isdigit(): non-empty and every character a digit
IsDigit(str) == str # <<>> /\ \A i \in 1..Len(str) : str[i] \in DigitChars

\* int(str) of an all-digit string
IntOfStr(str) == PyInt(FALSE, StripLeadingZeros([i \in 1..Len(str) |-> DigitOf(str[i])]))

Whitespace == {" "}

RECURSIVE LStrip(_)
LStrip(str) ==
    IF str = <<>> THEN <<>>
    ELSE IF Head(str) \in Whitespace THEN LStrip(Tail(str)) ELSE str

RECURSIVE RStrip(_)
RStrip(str) ==
    IF str = <<>> THEN <<>>
    ELSE IF str[Len(str)] \in Whitespace THEN RStrip(SubSeq(str, 1, Len(str) - 1)) ELSE str

\* str.strip()
Strip(str) == RStrip(LStrip(str))

\* ------------------------------------------------------------------ VerifiedQuery

\* datetime.fromtimestamp accepts the seconds of the years 1..9999 (UTC)
MinTimestamp == PyInt(TRUE, <<6, 2, 1, 3, 5, 5, 9, 6, 8, 0, 0>>)

MaxTimestamp == PyInt(FALSE, <<2, 5, 3, 4, 0, 2, 3, 0, 0, 7, 9, 9>>)

\* datetime.fromtimestamp(v) returns (TRUE) or raises (FALSE)
FromTimestampOk(v) == IntLeq(MinTimestamp, v) /\ IntLeq(v, MaxTimestamp)

\* str(e) of the exception datetime.fromtimestamp raises
FromTimestampMessage == "year is out of range"

VerifiedQueryError(message) == [exc |-> "VerifiedQueryError", message |-> message]

Returned(value) == [exc |-> "", value |-> value]

\* a validator that returns an int without converting it to a calendar time
validate_verified_at_unconverted(v) ==
    IF v.type = "int"
    THEN Returned(v.val)
    ELSE IF v.type = "str" /\ IsDigit(v.val)
    THEN Returned(IntOfStr(v.val))
    ELSE VerifiedQueryError(<<"bad_type_for_verified_at">>)

\* match v: case int() / case str() if v.isdigit() / case _
validate_verified_at(v) ==
    IF v.type = "int"
    THEN IF FromTimestampOk(v.val)
         THEN Returned(v.val)
         ELSE VerifiedQueryError(<<FromTimestampMessage>>)
    ELSE IF v.type = "str" /\ IsDigit(v.val)
    THEN Returned(IntOfStr(v.val))
    ELSE VerifiedQueryError(<<"bad_type_for_verified_at">>)

\* The SQL texts are words separated by blanks; sqlglot.parse_one is represented by
\* the grammar  SELECT [expr] [FROM name]  over them: it raises TokenError on an
\* unterminated quote (its tokenizer's error, which is no ParseError) and ParseError
\* when FROM is not followed by a name.
Keywords == {"SELECT", "FROM", "WHERE"}

SqlWords(sql) == SelectSeq(sql, LAMBDA c : c \notin Whitespace)

parse_one(sql) ==
    LET w == SqlWords(sql)
    IN  IF \E i \in 1..Len(w) : w[i] = "'"
        THEN "TokenError"
        ELSE IF \E i \in 1..Len(w) :
                    w[i] = "FROM" /\ (i = Len(w) \/ w[i + 1] \in Keywords)
        THEN "ParseError"
        ELSE ""

\* str(e) of the ParseError
ParseErrorMessage == "Expected table name"

\* v is None (<<>>) or <<text>>
validate_sql(v) ==
    IF v = <<>> \/ Strip(v[1]) = <<>>
    THEN VerifiedQueryError(<<"sql_cannot_be_empty">>)
    ELSE LET e == parse_one(v[1])
         IN  IF e = "ParseError"
             THEN VerifiedQueryError(<<"invalid_SQL", ": ", ParseErrorMessage, "!s">>)
             ELSE IF e # ""
             THEN [exc |-> e, message |-> <<>>]
             ELSE Returned(v)

\* A keyword argument that is not passed
NotPassed == <<>>

Passed(x) == <<x>>

\* VerifiedQuery(name=..., question=..., verified_at=..., verified_by=..., use_as_onboarding_question=..., sql=...):
\* the fields are validated in declaration order, a validator runs only for a field
\* that is passed, and the first VerifiedQueryError ends the construction.
VerifiedQuery(name, question, verified_at, verified_by, onboarding, sql) ==
    LET at  == IF verified_at = NotPassed THEN Returned(<<>>)
               ELSE LET r == validate_verified_at(verified_at[1])
                    IN  IF r.exc = "" THEN Returned(<<r.value>>) ELSE r
        txt == IF sql = NotPassed THEN Returned(<<>>) ELSE validate_sql(sql[1])
    IN  IF at.exc # "" THEN at
        ELSE IF txt.exc # "" THEN txt
        ELSE Returned([name |-> name, question |-> question, verified_at |-> at.value,
                       verified_by |-> verified_by, use_as_onboarding_question |-> onboarding,
                       sql |-> txt.value])

\* inputs of the constructor

IntArgs ==
    { PyInt(FALSE, <<>>),
      PyInt(FALSE, <<1, 7, 0, 0, 0, 0, 0, 0, 0, 0>>),
      PyInt(TRUE, <<1>>),
      MaxTimestamp,
      PyInt(FALSE, <<2, 5, 3, 4, 0, 2, 3, 0, 0, 8, 0, 0>>),
      MinTimestamp,
      PyInt(TRUE, <<6, 2, 1, 3, 5, 5, 9, 6, 8, 0, 1>>) }

StrArgs ==
    { <<>>,
      <<"0">>,
      <<"0", "0", "7">>,
      <<"1", "7", "0", "0", "0", "0", "0", "0", "0", "0">>,
      <<"2", "5", "3", "4", "0", "2", "3", "0", "0", "8", "0", "0">>,
      <<"-", "5">>,
      <<"1", ".", "5">>,
      <<"1", "2", "a">> }

VerifiedAtArgs ==
    {NotPassed}
      \cup {Passed([type |-> "int", val |-> n]) : n \in IntArgs}
      \cup {Passed([type |-> "str", val |-> str]) : str \in StrArgs}
      \cup {Passed([type |-> "float", val |-> <<"1", ".", "5">>]),
            Passed([type |-> "NoneType", val |-> <<>>])}

SqlTexts ==
    { <<>>,
      <<" ", " ", " ">>,
      <<"SELECT", " ", "1">>,
      <<" ", "SELECT", " ", "1", " ", "FROM", " ", "t", " ">>,
      <<"SELECT", " ", "FROM", " ", "WHERE">>,
      <<"SELECT", " ", "1", " ", "WHERE", " ", "x", " ", "=", " ", "'">> }

\* sql argument of SemanticModelBuilder.add_verified_query
BuilderSqlTexts ==
    { <<>>,
      <<"SELECT", " ", "1">>,
      <<"SELECT", " ", "FROM", " ", "WHERE">> }

\* sql argument: not passed, None, or a text
SqlArgs == {NotPassed, Passed(<<>>)} \cup {Passed(<<t>>) : t \in SqlTexts}

\* ------------------------------------------------------------------ SemanticModelBuilder

\* what a call raised ("" when it returned), with the message of the exception, and
\* what it returned; `args` are the arguments the call was made with
Raised(op, exc, message) == [op |-> op, args |-> <<>>, exc |-> exc, ret |-> message]

ReturnedFrom(op, args, ret) == [op |-> op, args |-> args, exc |-> "", ret |-> ret]

SizeOf(ms) == SeqSum([i \in 1..Len(ms) |-> ModelSize(ms[i])])

NoAccepted ==
    [tables |-> {}, dimensions |-> [t \in TableNames |-> 0], relationships |-> {},
     metrics |-> {}, verified_queries |-> <<>>]

\* the calls the current model accepted, with one more
Accept(field, value) ==
    [accepted EXCEPT ![current_model] =
        [@ EXCEPT ![field] =
            CASE field = "dimensions" -> [@ EXCEPT ![value] = @ + 1]
              [] field = "verified_queries" -> Append(@, value)
              [] OTHER -> @ \cup {value}]]

\* a call that returns self instead of raising when there is no current model
ReturnWithoutModel(op) ==
    /\ current_model = 0
    /\ result' = [op |-> op, args |-> <<>>, exc |-> "", ret |-> "self"]
    /\ UNCHANGED <<models, current_model, accepted>>

\* if not self.current_model: raise NoCurrentModelError()
RaiseNoCurrentModel(op) ==
    /\ current_model = 0
    /\ result' = Raised(op, "NoCurrentModelError", <<>>)
    /\ UNCHANGED <<models, current_model, accepted>>

\* the current model becomes `model` and the call returns self
UpdateCurrent(op, args, model) ==
    /\ models' = [models EXCEPT ![current_model] = model]
    /\ SizeOf(models') <= MaxSize
    /\ result' = ReturnedFrom(op, args, "self")
    /\ UNCHANGED current_model

\* a create_model that leaves the pointer on the model that is current
create_model_keeps_current(name) ==
    /\ models' = Append(models, SemanticModel(name, NoneVal))
    /\ SizeOf(models') <= MaxSize
    /\ current_model' = IF current_model # 0 THEN current_model ELSE Len(models) + 1
    /\ accepted' = Append(accepted, NoAccepted)
    /\ result' = ReturnedFrom("create_model", <<>>, "self")
    /\ UNCHANGED <<vq_vars, yaml_vars, rdf_vars>>

create_model(name) ==
    /\ models' = Append(models, SemanticModel(name, NoneVal))
    /\ SizeOf(models') <= MaxSize
    /\ current_model' = Len(models) + 1
    /\ accepted' = Append(accepted, NoAccepted)
    /\ result' = ReturnedFrom("create_model", <<>>, "self")
    /\ UNCHANGED <<vq_vars, yaml_vars, rdf_vars>>

add_table(name, primary_key) ==
    LET args == [name |-> name, primary_key |-> primary_key]
        base_table == BaseTable("db", "sch", name)
        pk == Columns(IF primary_key = <<>> \/ primary_key[1] = <<>> THEN <<>> ELSE primary_key[1])
        logical_table == Table(name, NoneVal, base_table, <<pk>>)
    IN  /\ \/ RaiseNoCurrentModel("add_table")
           \/ /\ current_model # 0
              /\ UpdateCurrent("add_table", args,
                               SemanticModel_add_table(models[current_model], logical_table))
              /\ accepted' = Accept("tables", name)
        /\ UNCHANGED <<vq_vars, yaml_vars, rdf_vars>>

add_dimension(table_name, name) ==
    LET args == <<>>
        tables == models[current_model].tables
        table == FirstIndex(tables, table_name)
        dimension == Dimension(name, NoneVal, NoneVal, NoneVal, FALSE, <<>>)
    IN  /\ \/ RaiseNoCurrentModel("add_dimension")
           \/ /\ current_model # 0
              /\ table = 0
              /\ result' = Raised("add_dimension", "TableNotFoundError", <<>>)
              /\ UNCHANGED <<models, current_model, accepted>>
           \/ /\ current_model # 0
              /\ table # 0
              /\ UpdateCurrent("add_dimension", args,
                    [models[current_model] EXCEPT !.tables[table].dimensions = Append(@, dimension)])
              /\ accepted' = Accept("dimensions", table_name)
        /\ UNCHANGED <<vq_vars, yaml_vars, rdf_vars>>

add_relationship(name, left_table, right_table, relationship_type, join_type) ==
    LET args == <<>>
        rel_col == RelationshipColumn("id", "id")
        relationship == Relationship(name, left_table, right_table, <<rel_col>>,
                                     relationship_type, join_type)
    IN  /\ \/ RaiseNoCurrentModel("add_relationship")
           \/ /\ current_model # 0
              /\ ~RelationshipValid(join_type, relationship_type)
              /\ result' = Raised("add_relationship", "ValidationError", <<>>)
              /\ UNCHANGED <<models, current_model, accepted>>
           \/ /\ current_model # 0
              /\ RelationshipValid(join_type, relationship_type)
              /\ UpdateCurrent("add_relationship", args,
                    SemanticModel_add_relationship(models[current_model], relationship))
              /\ accepted' = Accept("relationships", name)
        /\ UNCHANGED <<vq_vars, yaml_vars, rdf_vars>>

add_metric(name, expr) ==
    LET args == <<>>
        metric == Metric(name, expr, NoneVal)
    IN  /\ \/ RaiseNoCurrentModel("add_metric")
           \/ /\ current_model # 0
              /\ UpdateCurrent("add_metric", args,
                    SemanticModel_add_metric(models[current_model], metric))
              /\ accepted' = Accept("metrics", name)
        /\ UNCHANGED <<vq_vars, yaml_vars, rdf_vars>>

add_verified_query(sql) ==
    LET args == <<>>
        query == VerifiedQuery("q", "question", NotPassed, NoneVal, FALSE, Passed(<<sql>>))
    IN  /\ \/ RaiseNoCurrentModel("add_verified_query")
           \/ /\ current_model # 0
              /\ query.exc # ""
              /\ result' = Raised("add_verified_query", query.exc, query.message)
              /\ UNCHANGED <<models, current_model, accepted>>
           \/ /\ current_model # 0
              /\ query.exc = ""
              /\ UpdateCurrent("add_verified_query", args,
                    [models[current_model] EXCEPT !.verified_queries = Append(@, query.value)])
              /\ accepted' = Accept("verified_queries", sql)
        /\ UNCHANGED <<vq_vars, yaml_vars, rdf_vars>>

\* a build that returns the current model but forgets to reset the builder
build_keeps_current ==
    /\ \/ RaiseNoCurrentModel("build")
       \/ /\ current_model # 0
          /\ result' = ReturnedFrom("build", <<>>, current_model)
          /\ UNCHANGED <<models, current_model, accepted>>
    /\ UNCHANGED <<vq_vars, yaml_vars, rdf_vars>>

build ==
    /\ \/ RaiseNoCurrentModel("build")
       \/ /\ current_model # 0
          /\ result' = ReturnedFrom("build", <<>>, current_model)
          /\ current_model' = 0
          /\ UNCHANGED <<models, accepted>>
    /\ UNCHANGED <<vq_vars, yaml_vars, rdf_vars>>

\* Calls made on the current model itself (builder.current_model.add_table(...)), with
\* the entities the builder's own methods never construct: a table without a
\* primary key, a metric without a name.
SemanticModel_add_table_call(name) ==
    /\ current_model # 0
    /\ UpdateCurrent("SemanticModel.add_table", [name |-> name, primary_key |-> NoneVal],
            SemanticModel_add_table(models[current_model],
                                    Table(name, NoneVal, BaseTable("db", "sch", name), <<>>)))
    /\ accepted' = Accept("tables", name)
    /\ UNCHANGED <<vq_vars, yaml_vars, rdf_vars>>

SemanticModel_add_metric_call(expr) ==
    /\ current_model # 0
    /\ UpdateCurrent("SemanticModel.add_metric", [name |-> NoneVal, expr |-> expr],
            SemanticModel_add_metric(models[current_model], Metric(NoneVal, expr, NoneVal)))
    /\ accepted' = Accept("metrics", NoneVal)
    /\ UNCHANGED <<vq_vars, yaml_vars, rdf_vars>>

\* ------------------------------------------------------------------ validation

\* the two warnings a table can get, in the order the loop appends them
TableWarnings(table) ==
    (IF table.dimensions = <<>>
     THEN << <<"Table ", Str(table.name), " has no dimensions">> >> ELSE <<>>)
    \o
    (IF table.primary_key # <<>> /\ table.primary_key[1].columns = <<>>
     THEN << <<"Table ", Str(table.name), " has no primary key">> >> ELSE <<>>)

\* a check of the left table only
RelationshipIssues_left_only(rel, table_names) ==
    IF rel.left_table \notin table_names
    THEN << <<"Relationship ", Str(rel.name), " references unknown left table: ",
              Str(rel.left_table)>> >> ELSE <<>>

\* the issues of one relationship against the set of table names
RelationshipIssues(rel, table_names) ==
    (IF rel.left_table \notin table_names
     THEN << <<"Relationship ", Str(rel.name), " references unknown left table: ",
               Str(rel.left_table)>> >> ELSE <<>>)
    \o
    (IF rel.right_table \notin table_names
     THEN << <<"Relationship ", Str(rel.name), " references unknown right table: ",
               Str(rel.right_table)>> >> ELSE <<>>)

\* a check for an absent expr only
MetricIssues_absent_only(metric) ==
    IF metric.expr = NoneVal
    THEN << <<"Metric ", Str(metric.name), " has no expression">> >> ELSE <<>>

\* if not metric.expr
MetricIssues(metric) ==
    IF metric.expr = NoneVal \/ metric.expr = ""
    THEN << <<"Metric ", Str(metric.name), " has no expression">> >> ELSE <<>>

\* the list a loop builds by appending, for each item in turn, the strings of that item
RECURSIVE Appended(_)
Appended(lists) ==
    IF lists = <<>> THEN <<>> ELSE Head(lists) \o Appended(Tail(lists))

\* the dictionary validate_current_model returns for `model`
Validation(model) ==
    LET table_names == {model.tables[i].name : i \in 1..Len(model.tables)}
        warnings == Appended([i \in 1..Len(model.tables) |-> TableWarnings(model.tables[i])])
        issues ==
            Appended([i \in 1..Len(model.relationships) |->
                        RelationshipIssues(model.relationships[i], table_names)])
            \o Appended([i \in 1..Len(model.metrics) |-> MetricIssues(model.metrics[i])])
    IN  [valid |-> Len(issues) = 0, issues |-> issues, warnings |-> warnings,
         tables |-> Len(model.tables), relationships |-> Len(model.relationships),
         metrics |-> Len(model.metrics)]

validate_current_model ==
    /\ \/ RaiseNoCurrentModel("validate_current_model")
       \/ /\ current_model # 0
          /\ result' = ReturnedFrom("validate_current_model", <<>>,
                                    Validation(models[current_model]))
          /\ UNCHANGED <<models, current_model, accepted>>
    /\ UNCHANGED <<vq_vars, yaml_vars, rdf_vars>>

\* ------------------------------------------------------------------ the builder

Init ==
    /\ models = <<>>
    /\ current_model = 0
    /\ result = ReturnedFrom("SemanticModelBuilder", <<>>, "self")
    /\ accepted = <<>>
    /\ vq_objects = {}
    /\ vq_result = ReturnedFrom("", <<>>, <<>>)
    /\ yaml_content = <<>>
    /\ yaml_result = ReturnedFrom("", <<>>, <<>>)
    /\ classes = <<>>
    /\ properties = <<>>
    /\ graph = <<>>
    /\ rdf_result = ReturnedFrom("RDFSemanticConverter", <<>>, <<>>)

Next ==
    \/ \E name \in ModelNames : create_model(name)
    \/ \E name \in TableNames, primary_key \in PrimaryKeyArgs : add_table(name, primary_key)
    \/ \E table_name \in TableNames, name \in DimensionNames : add_dimension(table_name, name)
    \/ \E name \in RelationshipNames, ends \in RelationshipEnds, kind \in RelationshipKindArgs :
            add_relationship(name, ends[1], ends[2], kind[1], kind[2])
    \/ \E name \in MetricNames, expr \in MetricExprArgs : add_metric(name, expr)
    \/ \E sql \in BuilderSqlTexts : add_verified_query(sql)
    \/ build
    \/ validate_current_model
    \/ \E name \in DirectTableNames : SemanticModel_add_table_call(name)
    \/ \E expr \in {NoneVal, "e"} : SemanticModel_add_metric_call(expr)

Spec == Init /\ [][Next]_vars

\* ------------------------------------------------------------------ constructing verified queries

\* VerifiedQuery(verified_at=..., sql=...) called on its own: the outcome is recorded
\* and the object, if one was constructed, is kept.
VerifiedQuery_call(verified_at, sql) ==
    \E r \in {VerifiedQuery(NoneVal, NoneVal, verified_at, NoneVal, FALSE, sql)} :
        /\ vq_result' = [op |-> "VerifiedQuery",
                         args |-> [verified_at |-> verified_at, sql |-> sql],
                         exc |-> r.exc,
                         ret |-> IF r.exc = "" THEN r.value ELSE r.message]
        /\ vq_objects' = IF r.exc = "" THEN vq_objects \cup {r.value} ELSE vq_objects
        /\ Cardinality(vq_objects') <= MaxObjects
        /\ UNCHANGED <<builder_vars, yaml_vars, rdf_vars>>

NextVQ == \E verified_at \in VerifiedAtArgs, sql \in SqlArgs : VerifiedQuery_call(verified_at, sql)

SpecVQ == Init /\ [][NextVQ]_vars

\* ------------------------------------------------------------------ documents

\* Python data as model_dump returns it and yaml.safe_load builds it. A str is either
\* one of the short texts of the inputs (a TLA+ string) or a SQL text (a sequence of
\* words); `words` tells the two encodings apart.
PyStr(v) == [kind |-> "str", v |-> v, words |-> FALSE]

PySql(v) == [kind |-> "str", v |-> v, words |-> TRUE]

PyBool(v) == [kind |-> "bool", v |-> v]

PyNumber(v) == [kind |-> "int", v |-> v]

PyNone == [kind |-> "None"]

PyList(items) == [kind |-> "list", items |-> items]

\* a dict keeps the order of insertion: a sequence of <<key, value>> pairs
PyDict(entries) == [kind |-> "dict", entries |-> entries]

\* exclude_none=True: a field that is None is left out
Field(key, value) == IF value.kind = "None" THEN <<>> ELSE << <<key, value>> >>

OptStr(v) == IF v = NoneVal THEN PyNone ELSE PyStr(v)

Dump_BaseTable(b) ==
    PyDict(Field("database", OptStr(b.database)) \o Field("schema", OptStr(b.schema))
           \o Field("table", OptStr(b.table)))

Dump_Columns(c) ==
    PyDict(Field("columns", PyList([i \in 1..Len(c.columns) |-> PyStr(c.columns[i])])))

Dump_Dimension(d) ==
    PyDict(Field("name", PyStr(d.name))
           \o Field("synonyms", PyList([i \in 1..Len(d.synonyms) |-> PyStr(d.synonyms[i])]))
           \o Field("description", OptStr(d.description))
           \o Field("expr", OptStr(d.expr))
           \o Field("data_type", OptStr(d.data_type))
           \o Field("unique", PyBool(d.unique))
           \o Field("is_enum", PyBool(d.is_enum)))

Dump_Table(t) ==
    PyDict(Field("name", PyStr(t.name))
           \o Field("description", OptStr(t.description))
           \o Field("base_table", Dump_BaseTable(t.base_table))
           \o Field("primary_key", IF t.primary_key = <<>> THEN PyNone
                                   ELSE Dump_Columns(t.primary_key[1]))
           \o Field("dimensions",
                    PyList([i \in 1..Len(t.dimensions) |-> Dump_Dimension(t.dimensions[i])])))

Dump_RelationshipColumn(c) ==
    PyDict(Field("left_column", OptStr(c.left_column))
           \o Field("right_column", OptStr(c.right_column)))

Dump_Relationship(r) ==
    PyDict(Field("name", PyStr(r.name))
           \o Field("left_table", PyStr(r.left_table))
           \o Field("right_table", PyStr(r.right_table))
           \o Field("relationship_columns",
                    PyList([i \in 1..Len(r.relationship_columns) |->
                                Dump_RelationshipColumn(r.relationship_columns[i])]))
           \o Field("join_type", PyStr(r.join_type))
           \o Field("relationship_type", PyStr(r.relationship_type)))

Dump_Metric(m) ==
    PyDict(Field("name", OptStr(m.name))
           \o Field("synonyms", PyList(<<>>))
           \o Field("description", OptStr(m.description))
           \o Field("access_modifier", PyStr(m.access_modifier))
           \o Field("expr", OptStr(m.expr)))

Dump_VerifiedQuery(q) ==
    PyDict(Field("name", OptStr(q.name))
           \o Field("question", OptStr(q.question))
           \o Field("verified_at", IF q.verified_at = <<>> THEN PyNone
                                   ELSE PyNumber(q.verified_at[1]))
           \o Field("verified_by", OptStr(q.verified_by))
           \o Field("use_as_onboarding_question", PyBool(q.use_as_onboarding_question))
           \o Field("sql", IF q.sql = <<>> THEN PyNone ELSE PySql(q.sql[1])))

\* a field `list[str] | None`: None is <<>>, a list is << list >>
OptStrList(v) ==
    IF v = <<>> THEN PyNone ELSE PyList([i \in 1..Len(v[1]) |-> PyStr(v[1][i])])

Dump_ModuleCustomInstructions(c) ==
    PyDict(Field("sql_generation", OptStrList(c.sql_generation))
           \o Field("question_categorization", OptStrList(c.question_categorization)))

\* self.model_dump(exclude_none=True)
model_dump(model) ==
    PyDict(Field("name", PyStr(model.name))
           \o Field("description", OptStr(model.description))
           \o Field("tables", PyList([i \in 1..Len(model.tables) |-> Dump_Table(model.tables[i])]))
           \o Field("relationships",
                    PyList([i \in 1..Len(model.relationships) |->
                                Dump_Relationship(model.relationships[i])]))
           \o Field("metrics",
                    PyList([i \in 1..Len(model.metrics) |-> Dump_Metric(model.metrics[i])]))
           \o Field("verified_queries",
                    PyList([i \in 1..Len(model.verified_queries) |->
                                Dump_VerifiedQuery(model.verified_queries[i])]))
           \o Field("custom_instructions",
                    IF model.custom_instructions = <<>> THEN PyNone
                    ELSE Dump_ModuleCustomInstructions(model.custom_instructions[1])))

\* ---- yaml.dump / yaml.safe_load

\* The texts of the inputs that YAML 1.1's implicit resolver reads, as plain scalars,
\* as something other than a str.
YamlBoolTexts == {"true", "false", "yes", "no", "on", "off"}

YamlTrueTexts == {"true", "yes", "on"}

YamlNullTexts == {"", "null", "~"}

YamlIntTexts == {"0", "1", "123"}

\* Resolver.resolve(ScalarNode, value, (True, False)): the tag of a plain scalar
resolve(text, words) ==
    IF words
    THEN IF text = <<>> THEN "null"
         ELSE IF Len(text) = 1 /\ text[1] \in YamlIntTexts THEN "int" ELSE "str"
    ELSE CASE text \in YamlBoolTexts -> "bool"
           [] text \in YamlNullTexts -> "null"
           [] text \in YamlIntTexts -> "int"
           [] OTHER -> "str"

ScalarNode(style, text, enc) == [kind |-> "scalar", style |-> style, text |-> text, enc |-> enc]

SequenceNode(items) == [kind |-> "sequence", items |-> items]

MappingNode(entries) == [kind |-> "mapping", entries |-> entries]

\* a str written plain whatever it holds
represent_str_plain(data) ==
    ScalarNode("plain", data.v, IF data.words THEN "words" ELSE "atom")

\* represent_str with the emitter's choose_scalar_style: plain only when the plain
\* scalar reads back as the same str, single-quoted otherwise
represent_str(data) ==
    ScalarNode(IF resolve(data.v, data.words) = "str" THEN "plain" ELSE "'",
               data.v, IF data.words THEN "words" ELSE "atom")

\* yaml.dump(data, default_flow_style=False, sort_keys=False)
RECURSIVE yaml_dump(_)
yaml_dump(data) ==
    CASE data.kind = "str" -> represent_str(data)
      [] data.kind = "bool" -> ScalarNode("plain", IF data.v THEN "true" ELSE "false", "atom")
      [] data.kind = "int" -> ScalarNode("plain", data.v, "digits")
      [] data.kind = "None" -> ScalarNode("plain", "null", "atom")
      [] data.kind = "list" ->
            SequenceNode([i \in 1..Len(data.items) |-> yaml_dump(data.items[i])])
      [] data.kind = "dict" ->
            MappingNode([i \in 1..Len(data.entries) |->
                            <<data.entries[i][1], yaml_dump(data.entries[i][2])>>])

\* SafeConstructor.construct_scalar and the constructors of the resolved tags
construct_scalar(node) ==
    LET words == node.enc = "words"
        tag == IF node.style # "plain" THEN "str"
               ELSE IF node.enc = "digits" THEN "int"
               ELSE resolve(node.text, words)
    IN  CASE tag = "str" -> IF words THEN PySql(node.text) ELSE PyStr(node.text)
          [] tag = "bool" -> PyBool(node.text \in YamlTrueTexts)
          [] tag = "int" -> PyNumber(node.text)
          [] tag = "null" -> PyNone

\* yaml.safe_load(yaml_string)
RECURSIVE safe_load(_)
safe_load(node) ==
    CASE node.kind = "scalar" -> construct_scalar(node)
      [] node.kind = "sequence" ->
            PyList([i \in 1..Len(node.items) |-> safe_load(node.items[i])])
      [] node.kind = "mapping" ->
            PyDict([i \in 1..Len(node.entries) |->
                        <<node.entries[i][1], safe_load(node.entries[i][2])>>])

\* ---- SemanticModel.model_validate

Absent == [kind |-> "absent"]

\* data.get(key)
Get(data, key) ==
    LET at == {i \in 1..Len(data.entries) : data.entries[i][1] = key}
    IN  IF at = {} THEN Absent ELSE data.entries[CHOOSE i \in at : TRUE][2]

Ok(value) == [ok |-> TRUE, value |-> value]

Bad == [ok |-> FALSE, value |-> <<>>]

\* a field `str`: a str is required
ReqStr(node) == IF node.kind = "str" /\ ~node.words THEN Ok(node.v) ELSE Bad

\* a field `str | None` with default None
OptionalStr(node) ==
    IF node.kind \in {"absent", "None"} THEN Ok(NoneVal) ELSE ReqStr(node)

\* a field `bool` with a default: a bool, or (lax mode) one of the texts that read as one
BoolField(node, default) ==
    CASE node.kind = "absent" -> Ok(default)
      [] node.kind = "bool" -> Ok(node.v)
      [] node.kind = "str" /\ ~node.words /\ node.v \in YamlBoolTexts -> Ok(node.v \in YamlTrueTexts)
      [] OTHER -> Bad

\* the results of validating the items of a list field
AllOk(rs) == \A i \in 1..Len(rs) : rs[i].ok

Values(rs) == [i \in 1..Len(rs) |-> rs[i].value]

\* a field `list[...]` with default []; `rs` are the validated items
ListField(node, rs) ==
    CASE node.kind = "absent" -> Ok(<<>>)
      [] node.kind = "list" /\ AllOk(rs) -> Ok(Values(rs))
      [] OTHER -> Bad

Items(node) == IF node.kind = "list" THEN node.items ELSE <<>>

Validate_StrList(node) ==
    ListField(node, [i \in 1..Len(Items(node)) |-> ReqStr(Items(node)[i])])

Validate_BaseTable(data) ==
    IF data.kind # "dict" THEN Bad
    ELSE LET database == OptionalStr(Get(data, "database"))
             schema == OptionalStr(Get(data, "schema"))
             table == OptionalStr(Get(data, "table"))
         IN  IF database.ok /\ schema.ok /\ table.ok
             THEN Ok(BaseTable(database.value, schema.value, table.value)) ELSE Bad

Validate_Columns(data) ==
    IF data.kind # "dict" THEN Bad
    ELSE LET columns == Validate_StrList(Get(data, "columns"))
         IN  IF columns.ok THEN Ok(Columns(columns.value)) ELSE Bad

Validate_Dimension(data) ==
    IF data.kind # "dict" THEN Bad
    ELSE LET name == ReqStr(Get(data, "name"))
             synonyms == Validate_StrList(Get(data, "synonyms"))
             description == OptionalStr(Get(data, "description"))
             expr == OptionalStr(Get(data, "expr"))
             data_type == OptionalStr(Get(data, "data_type"))
             unique == BoolField(Get(data, "unique"), FALSE)
             is_enum == BoolField(Get(data, "is_enum"), FALSE)
         IN  IF name.ok /\ synonyms.ok /\ description.ok /\ expr.ok /\ data_type.ok
                /\ unique.ok /\ is_enum.ok
             THEN Ok([Dimension(name.value, data_type.value, description.value, expr.value,
                                unique.value, synonyms.value)
                        EXCEPT !.is_enum = is_enum.value])
             ELSE Bad

Validate_Table(data) ==
    IF data.kind # "dict" THEN Bad
    ELSE LET name == ReqStr(Get(data, "name"))
             description == OptionalStr(Get(data, "description"))
             bt == Get(data, "base_table")
             base_table == IF bt.kind \in {"absent", "None"} THEN Ok(<<>>)
                           ELSE Validate_BaseTable(bt)
             pk == Get(data, "primary_key")
             primary_key == IF pk.kind \in {"absent", "None"} THEN Ok(<<>>)
                            ELSE LET c == Validate_Columns(pk)
                                 IN  IF c.ok THEN Ok(<<c.value>>) ELSE Bad
             ds == Get(data, "dimensions")
             dimensions == ListField(ds, [i \in 1..Len(Items(ds)) |->
                                              Validate_Dimension(Items(ds)[i])])
         IN  IF name.ok /\ description.ok /\ base_table.ok /\ primary_key.ok /\ dimensions.ok
             THEN Ok([Table(name.value, description.value, base_table.value, primary_key.value)
                        EXCEPT !.dimensions = dimensions.value])
             ELSE Bad

Validate_RelationshipColumn(data) ==
    IF data.kind # "dict" THEN Bad
    ELSE LET left_column == OptionalStr(Get(data, "left_column"))
             right_column == OptionalStr(Get(data, "right_column"))
         IN  IF left_column.ok /\ right_column.ok
             THEN Ok(RelationshipColumn(left_column.value, right_column.value)) ELSE Bad

\* a Literal[...] field with a default
LiteralField(node, allowed, default) ==
    CASE node.kind = "absent" -> Ok(default)
      [] node.kind = "str" /\ ~node.words /\ node.v \in allowed -> Ok(node.v)
      [] OTHER -> Bad

Validate_Relationship(data) ==
    IF data.kind # "dict" THEN Bad
    ELSE LET name == ReqStr(Get(data, "name"))
             left_table == ReqStr(Get(data, "left_table"))
             right_table == ReqStr(Get(data, "right_table"))
             cs == Get(data, "relationship_columns")
             relationship_columns ==
                 IF cs.kind # "list" THEN Bad
                 ELSE ListField(cs, [i \in 1..Len(Items(cs)) |->
                                         Validate_RelationshipColumn(Items(cs)[i])])
             join_type == LiteralField(Get(data, "join_type"), JoinTypes, "inner")
             relationship_type ==
                 LiteralField(Get(data, "relationship_type"), RelationshipTypes, "many_to_one")
         IN  IF name.ok /\ left_table.ok /\ right_table.ok /\ relationship_columns.ok
                /\ join_type.ok /\ relationship_type.ok
             THEN Ok(Relationship(name.value, left_table.value, right_table.value,
                                  relationship_columns.value, relationship_type.value,
                                  join_type.value))
             ELSE Bad

Validate_Metric(data) ==
    IF data.kind # "dict" THEN Bad
    ELSE LET name == OptionalStr(Get(data, "name"))
             synonyms == Validate_StrList(Get(data, "synonyms"))
             description == OptionalStr(Get(data, "description"))
             access_modifier == LiteralField(Get(data, "access_modifier"),
                                             {"public_access", "private_access"}, "public_access")
             expr == OptionalStr(Get(data, "expr"))
         IN  IF name.ok /\ synonyms.ok /\ description.ok /\ access_modifier.ok /\ expr.ok
             THEN Ok([Metric(name.value, expr.value, description.value)
                        EXCEPT !.access_modifier = access_modifier.value])
             ELSE Bad

\* VerifiedQuery.model_validate: the field validators run as in the constructor
Validate_VerifiedQuery(data) ==
    IF data.kind # "dict" THEN Bad
    ELSE LET name == OptionalStr(Get(data, "name"))
             question == OptionalStr(Get(data, "question"))
             at == Get(data, "verified_at")
             verified_at ==
                 CASE at.kind = "absent" -> NotPassed
                   [] at.kind = "int" -> Passed([type |-> "int", val |-> at.v])
                   [] OTHER -> Passed([type |-> "NoneType", val |-> <<>>])
             verified_by == OptionalStr(Get(data, "verified_by"))
             onboarding == BoolField(Get(data, "use_as_onboarding_question"), FALSE)
             text == Get(data, "sql")
             sql == CASE text.kind = "absent" -> NotPassed
                      [] text.kind = "str" /\ text.words -> Passed(<<text.v>>)
                      [] OTHER -> Passed(<<>>)
         IN  IF name.ok /\ question.ok /\ verified_by.ok /\ onboarding.ok
                /\ text.kind \in {"absent", "None", "str"}
             THEN LET q == VerifiedQuery(name.value, question.value, verified_at,
                                         verified_by.value, onboarding.value, sql)
                  IN  IF q.exc = "" THEN Ok(q.value) ELSE Bad
             ELSE Bad

\* a field `list[str] | None` without a default: the key is required, its value may
\* be None
ReqStrList(node) ==
    CASE node.kind = "None" -> Ok(<<>>)
      [] node.kind = "list" ->
            LET r == Validate_StrList(node) IN IF r.ok THEN Ok(<<r.value>>) ELSE Bad
      [] OTHER -> Bad

Validate_ModuleCustomInstructions(data) ==
    IF data.kind # "dict" THEN Bad
    ELSE LET sql_generation == ReqStrList(Get(data, "sql_generation"))
             question_categorization == ReqStrList(Get(data, "question_categorization"))
         IN  IF sql_generation.ok /\ question_categorization.ok
             THEN Ok([sql_generation |-> sql_generation.value,
                      question_categorization |-> question_categorization.value])
             ELSE Bad

\* cls.model_validate(data): a key that is not a field of SemanticModel is ignored
\* (pydantic's default extra="ignore"), a field that is not in the data takes its default
model_validate(data) ==
    IF data.kind # "dict" THEN Bad
    ELSE LET name == ReqStr(Get(data, "name"))
             description == OptionalStr(Get(data, "description"))
             ts == Get(data, "tables")
             tables == ListField(ts, [i \in 1..Len(Items(ts)) |-> Validate_Table(Items(ts)[i])])
             rels == Get(data, "relationships")
             relationships == ListField(rels, [i \in 1..Len(Items(rels)) |->
                                                   Validate_Relationship(Items(rels)[i])])
             ms == Get(data, "metrics")
             metrics == ListField(ms, [i \in 1..Len(Items(ms)) |-> Validate_Metric(Items(ms)[i])])
             qs == Get(data, "verified_queries")
             verified_queries == ListField(qs, [i \in 1..Len(Items(qs)) |->
                                                    Validate_VerifiedQuery(Items(qs)[i])])
             ci == Get(data, "custom_instructions")
             custom_instructions ==
                 IF ci.kind \in {"absent", "None"} THEN Ok(<<>>)
                 ELSE LET r == Validate_ModuleCustomInstructions(ci)
                      IN  IF r.ok THEN Ok(<<r.value>>) ELSE Bad
         IN  IF name.ok /\ description.ok /\ tables.ok /\ relationships.ok /\ metrics.ok
                /\ verified_queries.ok /\ custom_instructions.ok
             THEN Ok([SemanticModel(name.value, description.value)
                        EXCEPT !.tables = tables.value, !.relationships = relationships.value,
                               !.metrics = metrics.value,
                               !.verified_queries = verified_queries.value,
                               !.custom_instructions = custom_instructions.value])
             ELSE Bad

\* SemanticModel.to_yaml(): the document, as the tree of nodes its text denotes
to_yaml(model) == yaml_dump(model_dump(model))

\* SemanticModel.from_yaml_string(yaml_string)
from_yaml_string(yaml_string) ==
    LET r == model_validate(safe_load(yaml_string))
    IN  IF r.ok THEN Returned(r.value) ELSE [exc |-> "ValidationError", message |-> <<>>]

\* The document with its table list under the key logical_tables, as
\* SchemaExtractor.generate_semantic_yaml writes it
WithLogicalTables(document) ==
    MappingNode([i \in 1..Len(document.entries) |->
                    IF document.entries[i][1] = "tables"
                    THEN <<"logical_tables", document.entries[i][2]>>
                    ELSE document.entries[i]])

\* model.to_yaml() on one of the builder's models (the current one, or one built before)
to_yaml_call(i) ==
    /\ yaml_content' = [model |-> models[i], document |-> to_yaml(models[i])]
    /\ yaml_result' = ReturnedFrom("", <<>>, <<>>)
    /\ UNCHANGED <<builder_vars, vq_vars, rdf_vars>>

\* SemanticModel.from_yaml_string(...) on the document written last, with its table
\* list under `key`
from_yaml_string_call(key) ==
    /\ yaml_content # <<>>
    /\ \E r \in {from_yaml_string(IF key = "tables" THEN yaml_content.document
                                  ELSE WithLogicalTables(yaml_content.document))} :
          yaml_result' = [op |-> "from_yaml_string", args |-> key, exc |-> r.exc,
                          ret |-> IF r.exc = "" THEN r.value ELSE r.message]
    /\ UNCHANGED <<builder_vars, vq_vars, rdf_vars, yaml_content>>

\* names that read as an int, a bool or a null when written as plain scalars
YamlModelNames == {"123"}

YamlTableNames == {"a", "no"}

YamlRelationshipNames == {"null"}

YamlMetricExprArgs == {"", "e"}

YamlSqlTexts == { <<"SELECT", " ", "1">> }

NextYaml ==
    \/ \E name \in YamlModelNames : create_model(name)
    \/ \E name \in YamlTableNames, primary_key \in PrimaryKeyArgs : add_table(name, primary_key)
    \/ \E table_name \in YamlTableNames, name \in DimensionNames : add_dimension(table_name, name)
    \/ \E name \in YamlRelationshipNames, kind \in RelationshipKindArgs :
            add_relationship(name, "a", "no", kind[1], kind[2])
    \/ \E name \in MetricNames, expr \in YamlMetricExprArgs : add_metric(name, expr)
    \/ \E sql \in YamlSqlTexts : add_verified_query(sql)
    \/ build
    \/ \E i \in 1..Len(models) : to_yaml_call(i)
    \/ \E key \in {"tables", "logical_tables"} : from_yaml_string_call(key)

SpecYaml == Init /\ [][NextYaml]_vars

\* ------------------------------------------------------------------ models of a builder

\* a get_model that returns the model created last under the name
get_model_newest(name) ==
    /\ result' = ReturnedFrom("get_model", name,
            IF NameExists(models, name)
            THEN CHOOSE k \in 1..Len(models) :
                    models[k].name = name /\ \A j \in (k + 1)..Len(models) : models[j].name # name
            ELSE 0)
    /\ UNCHANGED <<models, current_model, accepted, vq_vars, yaml_vars, rdf_vars>>

\* builder.get_model(name): the first model of that name, 0 for None
get_model(name) ==
    /\ result' = ReturnedFrom("get_model", name, FirstIndex(models, name))
    /\ UNCHANGED <<models, current_model, accepted, vq_vars, yaml_vars, rdf_vars>>

\* builder.load_from_yaml(yaml_path), on a file that holds `document`: an error of
\* SemanticModel.from_yaml leaves the builder as it was
load_from_yaml(document) ==
    /\ \E r \in {from_yaml_string(document)} :
          IF r.exc = ""
          THEN /\ models' = Append(models, r.value)
               /\ SizeOf(models') <= MaxSize
               /\ current_model' = Len(models) + 1
               /\ accepted' = Append(accepted, NoAccepted)
               /\ result' = ReturnedFrom("load_from_yaml", <<>>, "self")
          ELSE /\ result' = Raised("load_from_yaml", r.exc, <<>>)
               /\ UNCHANGED <<models, current_model, accepted>>
    /\ UNCHANGED <<vq_vars, yaml_vars, rdf_vars>>

\* the builder with its model list read and loaded into; the files hold a model
\* written by to_yaml, or an empty mapping
NextModels ==
    \/ \E name \in ModelNames : create_model(name)
    \/ \E name \in DirectTableNames, primary_key \in PrimaryKeyArgs : add_table(name, primary_key)
    \/ build
    \/ \E name \in ModelNames \cup {"m3"} : get_model(name)
    \/ \E document \in {to_yaml(SemanticModel("m1", NoneVal)), MappingNode(<<>>)} :
            load_from_yaml(document)

SpecModels == Init /\ [][NextModels]_vars

\* ------------------------------------------------------------------ loaded models

\* Documents written by hand: a name only; custom instructions with both lists, with
\* one of them null, with both null, and with a key missing; a verified query without
\* verified_at.
LoadedDocuments ==
    LET Plain(text) == ScalarNode("plain", text, "atom")
        Instructions == SequenceNode(<<Plain("x")>>)
        Document(key, value) == MappingNode(<< <<"name", Plain("m1")>>, <<key, value>> >>)
        CustomInstructions(entries) == Document("custom_instructions", MappingNode(entries))
    IN  { MappingNode(<< <<"name", Plain("m1")>> >>),
          CustomInstructions(<< <<"sql_generation", Instructions>>,
                                <<"question_categorization", SequenceNode(<<>>)>> >>),
          CustomInstructions(<< <<"sql_generation", Plain("null")>>,
                                <<"question_categorization", Instructions>> >>),
          CustomInstructions(<< <<"sql_generation", Instructions>>,
                                <<"question_categorization", Plain("null")>> >>),
          CustomInstructions(<< <<"sql_generation", Plain("null")>>,
                                <<"question_categorization", Plain("null")>> >>),
          CustomInstructions(<< <<"question_categorization", Instructions>> >>),
          Document("verified_queries",
                   SequenceNode(<< MappingNode(<< <<"name", Plain("q")>>,
                                                  <<"sql", ScalarNode("plain", <<"SELECT", " ", "1">>,
                                                                      "words")>> >>) >>)) }

\* models read from documents, written again and read back
NextLoaded ==
    \/ \E document \in LoadedDocuments : load_from_yaml(document)
    \/ \E i \in 1..Len(models) : to_yaml_call(i)
    \/ from_yaml_string_call("tables")

SpecLoaded == Init /\ [][NextLoaded]_vars

\* ------------------------------------------------------------------ RDFSemanticConverter
\* (src/src/semantiaz/converters/rdf_semantic_converter.py)
\*
\* A str of the converter (a URI, a name, a literal) is a sequence of pieces: single
\* characters where the code looks inside the str (split, lower, endswith), longer
\* pieces elsewhere. None for such a str is NoneStr. The classes the converter imports
\* are those of semantic_model.py; the name LogicalTable it imports stands for the
\* class semantic_model.py defines as Table.

NoneStr == <<NoneVal>>

\* str.upper() of a piece: of a letter of the inputs, or of a piece that is a whole word
UpperChar(c) ==
    CASE c = "a" -> "A" [] c = "b" -> "B" [] c = "p" -> "P" [] c = "t" -> "T"
      [] c = "o" -> "O" [] c = "i" -> "I" [] c = "d" -> "D" [] c = "x" -> "X"
      [] c = "y" -> "Y" [] c = "integer" -> "INTEGER" [] c = "Decimal" -> "DECIMAL"
      [] c = "unknown" -> "UNKNOWN" [] c = "timestamp" -> "TIMESTAMP" [] OTHER -> c

\* str.lower() of a piece
LowerChar(c) ==
    CASE c = "A" -> "a" [] c = "B" -> "b" [] c = "P" -> "p" [] c = "T" -> "t"
      [] c = "O" -> "o" [] c = "I" -> "i" [] c = "D" -> "d" [] OTHER -> c

Lower(str) == [i \in 1..Len(str) |-> LowerChar(str[i])]

\* the part of str after the last piece equal to sep: str.split(sep)[-1]
RECURSIVE SplitLast(_, _)
SplitLast(str, sep) ==
    IF str = <<>> THEN <<>>
    ELSE IF sep \in Range(Tail(str)) THEN SplitLast(Tail(str), sep)
    ELSE IF Head(str) = sep THEN Tail(str)
    ELSE str

\* rdflib.namespace terms: RDF.<name>, RDFS.<name>, OWL.<name>
RDF(name) == <<"rdf", "#", name>>

RDFS(name) == <<"rdfs", "#", name>>

OWL(name) == <<"owl", "#", name>>

\* "http://www.w3.org/2001/XMLSchema#<name>"
XSD(name) == <<"http://www.w3.org/2001/XMLSchema", "#", name>>

\* self.graph.parse(data=...): the triples of the document are added to the graph,
\* which keeps each triple once, in the order of arrival
RECURSIVE Graph_parse(_, _)
Graph_parse(g, triples) ==
    IF triples = <<>> THEN g
    ELSE Graph_parse(IF Head(triples) \in Range(g) THEN g ELSE Append(g, Head(triples)),
                     Tail(triples))

\* list(self.graph.subjects(predicate, object)), each subject once
RECURSIVE Graph_subjects(_, _, _)
Graph_subjects(g, predicate, object) ==
    IF g = <<>> THEN <<>>
    ELSE LET rest == Graph_subjects(Tail(g), predicate, object)
             t == Head(g)
         IN  IF t[2] = predicate /\ t[3] = object /\ t[1] \notin Range(rest)
             THEN <<t[1]>> \o rest ELSE rest

\* list(self.graph.objects(subject, predicate))
RECURSIVE Graph_objects(_, _, _)
Graph_objects(g, subject, predicate) ==
    IF g = <<>> THEN <<>>
    ELSE LET t == Head(g)
         IN  (IF t[1] = subject /\ t[2] = predicate THEN <<t[3]>> ELSE <<>>)
             \o Graph_objects(Tail(g), subject, predicate)

_get_local_name(uri) == SplitLast(SplitLast(uri, "#"), "/")

_get_label(g, uri) ==
    LET labels == Graph_objects(g, uri, RDFS("label"))
    IN  IF labels # <<>> THEN labels[1] ELSE NoneStr

_get_comment(g, uri) ==
    LET comments == Graph_objects(g, uri, RDFS("comment"))
    IN  IF comments # <<>> THEN comments[1] ELSE NoneStr

\* d[key] = value on a dict kept as a sequence of <<key, value>> pairs: the value of an
\* existing key is replaced in place, a new key goes to the end
DictSet(d, key, value) ==
    IF \E i \in 1..Len(d) : d[i][1] = key
    THEN [i \in 1..Len(d) |-> IF d[i][1] = key THEN <<key, value>> ELSE d[i]]
    ELSE Append(d, <<key, value>>)

Keys(d) == [i \in 1..Len(d) |-> d[i][1]]

\* for subj in self.graph.subjects(RDF.type, OWL.Class): self.classes[class_name] = {...}
RECURSIVE ExtractClasses(_, _, _)
ExtractClasses(g, subjects, recorded) ==
    IF subjects = <<>> THEN recorded
    ELSE LET subj == Head(subjects)
             info == [uri |-> subj, label |-> _get_label(g, subj),
                      comment |-> _get_comment(g, subj),
                      superclasses |-> Graph_objects(g, subj, RDFS("subClassOf")),
                      properties |-> <<>>]
         IN  ExtractClasses(g, Tail(subjects), DictSet(recorded, _get_local_name(subj), info))

\* for subj in self.graph.subjects(RDF.type, OWL.<kind>Property): self.properties[prop_name] = {...}
RECURSIVE ExtractProperties(_, _, _, _)
ExtractProperties(g, subjects, type, recorded) ==
    IF subjects = <<>> THEN recorded
    ELSE LET subj == Head(subjects)
             info == [uri |-> subj, label |-> _get_label(g, subj),
                      comment |-> _get_comment(g, subj),
                      domain |-> Graph_objects(g, subj, RDFS("domain")),
                      range |-> Graph_objects(g, subj, RDFS("range")),
                      type |-> type]
         IN  ExtractProperties(g, Tail(subjects), type,
                               DictSet(recorded, _get_local_name(subj), info))

\* self._extract_ontology_elements(): the graph's classes, then its object properties,
\* then its datatype properties are written into the dicts the converter holds
_extract_ontology_elements(g, cls, props) ==
    [classes |-> ExtractClasses(g, Graph_subjects(g, RDF("type"), OWL("Class")), cls),
     properties |->
        ExtractProperties(g, Graph_subjects(g, RDF("type"), OWL("DatatypeProperty")), "datatype",
            ExtractProperties(g, Graph_subjects(g, RDF("type"), OWL("ObjectProperty")), "object",
                              props))]

\* ---- ontologies loaded

\* the documents loaded. e#A and e/B are the classes of the sample ontology, f#a a
\* class of another namespace whose local name differs from e#A's in case only, and
\* e#Z a class no document declares
Ontologies ==
    LET ClassA == <<"e", "#", "A">>
        ClassB == <<"e", "/", "B">>
        ClassLowerA == <<"f", "#", "a">>
        ClassZ == <<"e", "#", "Z">>
        Prop(name) == <<"e", "#", name>>
    IN  { <<>>,
          \* a class with a comment and a datatype property of integer range
          << <<ClassA, RDF("type"), OWL("Class")>>,
             <<ClassA, RDFS("comment"), <<"A human being">> >>,
             <<Prop("p"), RDF("type"), OWL("DatatypeProperty")>>,
             <<Prop("p"), RDFS("domain"), ClassA>>,
             <<Prop("p"), RDFS("range"), XSD("integer")>> >>,
          \* a class with a label and a datatype property without domain and range
          << <<ClassB, RDF("type"), OWL("Class")>>,
             <<ClassB, RDFS("label"), <<"Organization">> >>,
             <<Prop("q"), RDF("type"), OWL("DatatypeProperty")>> >>,
          \* two classes and an object property from one to the other
          << <<ClassA, RDF("type"), OWL("Class")>>,
             <<ClassB, RDF("type"), OWL("Class")>>,
             <<Prop("w"), RDF("type"), OWL("ObjectProperty")>>,
             <<Prop("w"), RDFS("domain"), ClassA>>,
             <<Prop("w"), RDFS("range"), ClassB>> >>,
          \* an object property whose range class is not declared
          << <<ClassA, RDF("type"), OWL("Class")>>,
             <<Prop("v"), RDF("type"), OWL("ObjectProperty")>>,
             <<Prop("v"), RDFS("domain"), ClassA>>,
             <<Prop("v"), RDFS("range"), ClassZ>> >>,
          \* two classes whose names differ in case only, and a datatype property of
          \* an undeclared domain with two ranges, the first one not in the mapping
          << <<ClassLowerA, RDF("type"), OWL("Class")>>,
             <<ClassA, RDF("type"), OWL("Class")>>,
             <<Prop("r"), RDF("type"), OWL("DatatypeProperty")>>,
             <<Prop("r"), RDFS("domain"), ClassB>>,
             <<Prop("r"), RDFS("range"), XSD("anyURI")>>,
             <<Prop("r"), RDFS("range"), XSD("date")>> >>,
          \* an object property with two domain classes whose names differ in case only
          << <<ClassA, RDF("type"), OWL("Class")>>,
             <<ClassLowerA, RDF("type"), OWL("Class")>>,
             <<ClassB, RDF("type"), OWL("Class")>>,
             <<Prop("w"), RDF("type"), OWL("ObjectProperty")>>,
             <<Prop("w"), RDFS("domain"), ClassA>>,
             <<Prop("w"), RDFS("domain"), ClassLowerA>>,
             <<Prop("w"), RDFS("range"), ClassB>> >> }

\* converter.load_rdf_string(rdf_content)
load_rdf_string(rdf_content) ==
    /\ graph' = Graph_parse(graph, rdf_content)
    /\ Len(graph') <= MaxTriples
    /\ \E r \in {_extract_ontology_elements(graph', classes, properties)} :
          /\ classes' = r.classes
          /\ properties' = r.properties
    /\ rdf_result' = ReturnedFrom("load_rdf_string", rdf_content, <<>>)
    /\ UNCHANGED <<builder_vars, vq_vars, yaml_vars>>

\* converter.get_ontology_stats()
get_ontology_stats ==
    /\ rdf_result' = ReturnedFrom("get_ontology_stats", <<>>,
            [classes |-> Len(classes),
             object_properties |->
                Cardinality({i \in 1..Len(properties) : properties[i][2].type = "object"}),
             datatype_properties |->
                Cardinality({i \in 1..Len(properties) : properties[i][2].type = "datatype"}),
             total_triples |-> Len(graph)])
    /\ UNCHANGED <<builder_vars, vq_vars, yaml_vars, classes, properties, graph>>

\* ---- type mapping

\* dict.get(key, default) on a dict written as a set of <<key, value>> pairs
DictGet(d, key, default) ==
    IF \E e \in d : e[1] = key THEN (CHOOSE e \in d : e[1] = key)[2] ELSE default

datatype_mapping ==
    { <<XSD("string"), <<"STRING">> >>,
      <<XSD("int"), <<"INTEGER">> >>,
      <<XSD("integer"), <<"INTEGER">> >>,
      <<XSD("decimal"), <<"DECIMAL">> >>,
      <<XSD("float"), <<"FLOAT">> >>,
      <<XSD("double"), <<"DOUBLE">> >>,
      <<XSD("boolean"), <<"BOOLEAN">> >>,
      <<XSD("date"), <<"DATE">> >>,
      <<XSD("dateTime"), <<"TIMESTAMP">> >>,
      <<XSD("time"), <<"TIME">> >> }

_map_datatype_to_sql(datatype_uri) == DictGet(datatype_mapping, datatype_uri, <<"STRING">>)

sql_mapping ==
    { << <<"STRING">>, XSD("string")>>,
      << <<"INTEGER">>, XSD("integer")>>,
      << <<"DECIMAL">>, XSD("decimal")>>,
      << <<"FLOAT">>, XSD("float")>>,
      << <<"DOUBLE">>, XSD("double")>>,
      << <<"BOOLEAN">>, XSD("boolean")>>,
      << <<"DATE">>, XSD("date")>>,
      << <<"TIMESTAMP">>, XSD("dateTime")>>,
      << <<"TIME">>, XSD("time")>> }

Upper(str) == [i \in 1..Len(str) |-> UpperChar(str[i])]

\* a lookup of the type as it is given
_map_sql_to_datatype_exact(sql_type) == DictGet(sql_mapping, sql_type, XSD("string"))

_map_sql_to_datatype(sql_type) == DictGet(sql_mapping, Upper(sql_type), XSD("string"))

XsdNames ==
    {"string", "int", "integer", "decimal", "float", "double", "boolean", "date", "dateTime",
     "time"}

SemanticTypes ==
    { <<"STRING">>, <<"INTEGER">>, <<"DECIMAL">>, <<"FLOAT">>, <<"DOUBLE">>, <<"BOOLEAN">>,
      <<"DATE">>, <<"TIMESTAMP">>, <<"TIME">> }

DatatypeUriArgs ==
    {XSD(n) : n \in XsdNames} \cup {XSD("anyURI"), <<"unknown_type">>, <<>>, <<"e", "#", "A">>}

SqlTypeArgs ==
    SemanticTypes \cup { <<"UNKNOWN">>, <<"integer">>, <<"Decimal">>, <<"timestamp">>,
                         <<"unknown">>, <<"VARCHAR">>, <<>> }

\* converter._map_datatype_to_sql(datatype_uri)
map_datatype_to_sql_call(datatype_uri) ==
    /\ rdf_result' = ReturnedFrom("_map_datatype_to_sql", datatype_uri,
                                  _map_datatype_to_sql(datatype_uri))
    /\ UNCHANGED <<builder_vars, vq_vars, yaml_vars, classes, properties, graph>>

\* converter._map_sql_to_datatype(sql_type)
map_sql_to_datatype_call(sql_type) ==
    /\ rdf_result' = ReturnedFrom("_map_sql_to_datatype", sql_type,
                                  _map_sql_to_datatype(sql_type))
    /\ UNCHANGED <<builder_vars, vq_vars, yaml_vars, classes, properties, graph>>

\* ---- convert_to_semantic_model

\* a or b on two optional strs
OrElse(a, b) == IF a # NoneStr /\ a # <<>> THEN a ELSE b

\* Columns(**kwargs): a keyword that is not a field of Columns is ignored (pydantic's
\* default extra="ignore") and `columns` keeps its default, the empty list
Columns_kwargs(kwargs) ==
    Columns(IF "columns" \in DOMAIN kwargs THEN kwargs.columns ELSE <<>>)

\* a property with no domain applies to every class
AppliesToDeclared(domain_classes, class_name) == class_name \in Range(domain_classes)

\* if not domain_classes or class_name in domain_classes
AppliesTo(domain_classes, class_name) ==
    domain_classes = <<>> \/ class_name \in Range(domain_classes)

\* the logical table built for one class, with its dimensions
ClassTable(class_name, class_info, props, database, schema) ==
    LET table_name == Lower(class_name)
        description == OrElse(class_info.comment, class_info.label)
        base_table == BaseTable(database, schema, table_name)
        pk == Columns_kwargs([names |-> <<table_name \o <<"_", "i", "d">> >>])
        logical_table == Table(table_name, description, base_table, <<pk>>)
        id_dimension == Dimension(table_name \o <<"_", "i", "d">>, <<"STRING">>,
                                  <<"Unique identifier for ">> \o class_name,
                                  NoneStr, TRUE, <<>>)
        PropertyDimension(prop_name, prop_info) ==
            LET domain_classes == [k \in 1..Len(prop_info.domain) |->
                                        _get_local_name(prop_info.domain[k])]
                range_types == prop_info.range
                sql_type == IF range_types # <<>> THEN _map_datatype_to_sql(range_types[1])
                            ELSE <<"STRING">>
            IN  IF prop_info.type = "datatype"
                   /\ AppliesTo(domain_classes, class_name)
                THEN << Dimension(prop_name, sql_type, OrElse(prop_info.comment, prop_info.label),
                                  NoneStr, FALSE, <<>>) >>
                ELSE <<>>
    IN  [logical_table EXCEPT !.dimensions =
            <<id_dimension>>
            \o Appended([j \in 1..Len(props) |-> PropertyDimension(props[j][1], props[j][2])])]

\* for class_name, class_info in self.classes.items(): ... model.add_table(logical_table)
RECURSIVE AddClassTables(_, _, _, _, _)
AddClassTables(model, cls, props, database, schema) ==
    IF cls = <<>> THEN model
    ELSE AddClassTables(
            SemanticModel_add_table(model,
                ClassTable(Head(cls)[1], Head(cls)[2], props, database, schema)),
            Tail(cls), props, database, schema)

\* the (property, domain class, range class) triples the relationship loops visit, in
\* the order they visit them
PropertyPairs(props) ==
    Appended([j \in 1..Len(props) |->
        IF props[j][2].type # "object" THEN <<>>
        ELSE LET domain_classes == [k \in 1..Len(props[j][2].domain) |->
                                        _get_local_name(props[j][2].domain[k])]
                 range_classes == [k \in 1..Len(props[j][2].range) |->
                                        _get_local_name(props[j][2].range[k])]
             IN  Appended([d \in 1..Len(domain_classes) |->
                    [r \in 1..Len(range_classes) |->
                        <<props[j][1], domain_classes[d], range_classes[r]>>]])])

\* f"{domain_class.lower()}_to_{range_class.lower()}_{prop_name}"
RelationshipName(domain_class, range_class, prop_name) ==
    Lower(domain_class) \o <<"_", "t", "o", "_">> \o Lower(range_class) \o <<"_">> \o prop_name

\* the body of the innermost loop, for each triple in turn: a Relationship that fails
\* its validation ends the conversion with pydantic's ValidationError
RECURSIVE AddRelationships(_, _, _)
AddRelationships(model, cls, pairs) ==
    IF pairs = <<>> THEN Returned(model)
    ELSE LET prop_name == Head(pairs)[1]
             domain_class == Head(pairs)[2]
             range_class == Head(pairs)[3]
             rel_name == RelationshipName(domain_class, range_class, prop_name)
             rel_col == RelationshipColumn(Lower(range_class) \o <<"_", "i", "d">>,
                                           Lower(range_class) \o <<"_", "i", "d">>)
             relationship == Relationship(rel_name, Lower(domain_class), Lower(range_class),
                                          <<rel_col>>, "MANY_TO_ONE", "inner")
         IN  IF domain_class \in Range(Keys(cls)) /\ range_class \in Range(Keys(cls))
             THEN IF RelationshipValid("inner", "MANY_TO_ONE")
                  THEN AddRelationships(SemanticModel_add_relationship(model, relationship),
                                        cls, Tail(pairs))
                  ELSE [exc |-> "ValidationError", message |-> <<>>]
             ELSE AddRelationships(model, cls, Tail(pairs))

\* RDFSemanticConverter.convert_to_semantic_model(model_name, database, schema)
ConvertToSemanticModel(cls, props, model_name, database, schema) ==
    AddRelationships(
        AddClassTables(SemanticModel(model_name, NoneStr), cls, props, database, schema),
        cls, PropertyPairs(props))

convert_to_semantic_model(model_name) ==
    /\ \E r \in {ConvertToSemanticModel(classes, properties, model_name,
                                         <<"ontology_db">>, <<"semantic">>)} :
          rdf_result' = [op |-> "convert_to_semantic_model", args |-> model_name,
                         exc |-> r.exc, ret |-> IF r.exc = "" THEN r.value ELSE r.message]
    /\ UNCHANGED <<builder_vars, vq_vars, yaml_vars, classes, properties, graph>>

\* ---- convert_from_semantic_model

\* str.title(): a letter that follows no letter is upper-cased, every other one lower-cased
Title(str) ==
    [i \in 1..Len(str) |->
        IF i > 1 /\ LowerChar(str[i - 1]) # UpperChar(str[i - 1])
        THEN LowerChar(str[i]) ELSE UpperChar(str[i])]

\* str.endswith(suffix)
EndsWith(str, suffix) ==
    Len(str) >= Len(suffix) /\ SubSeq(str, Len(str) - Len(suffix) + 1, Len(str)) = suffix

\* str.replace(old, new)
RECURSIVE Replace(_, _, _)
Replace(str, old, new) ==
    IF str = <<>> THEN <<>>
    ELSE IF Len(str) >= Len(old) /\ SubSeq(str, 1, Len(old)) = old
    THEN new \o Replace(SubSeq(str, Len(old) + 1, Len(str)), old, new)
    ELSE <<Head(str)>> \o Replace(Tail(str), old, new)

\* the triples added for one dimension of a table
DimensionTriples(ns, class_uri, dim) ==
    IF EndsWith(dim.name, <<"_", "i", "d">>) THEN <<>>
    ELSE LET prop_uri == ns \o dim.name
         IN  << <<prop_uri, RDF("type"), OWL("DatatypeProperty")>>,
                <<prop_uri, RDFS("label"), Title(Replace(dim.name, <<"_">>, <<" ">>))>> >>
             \o (IF dim.description # NoneStr /\ dim.description # <<>>
                 THEN << <<prop_uri, RDFS("comment"), dim.description>> >> ELSE <<>>)
             \o << <<prop_uri, RDFS("domain"), class_uri>> >>
             \o (IF dim.data_type # NoneStr /\ dim.data_type # <<>>
                 THEN << <<prop_uri, RDFS("range"), _map_sql_to_datatype(dim.data_type)>> >>
                 ELSE <<>>)

\* the triples added for one table
TableTriples(ns, table) ==
    LET class_uri == ns \o Title(table.name)
    IN  << <<class_uri, RDF("type"), OWL("Class")>>,
           <<class_uri, RDFS("label"), Title(table.name)>> >>
        \o (IF table.description # NoneStr /\ table.description # <<>>
            THEN << <<class_uri, RDFS("comment"), table.description>> >> ELSE <<>>)
        \o Appended([j \in 1..Len(table.dimensions) |->
                        DimensionTriples(ns, class_uri, table.dimensions[j])])

\* the triples added for one relationship
RelationshipTriples(ns, rel) ==
    LET prop_name == Replace(Replace(rel.name, <<"_", "t", "o", "_">>, <<"_">>), <<"_">>, <<>>)
        prop_uri == ns \o prop_name
    IN  << <<prop_uri, RDF("type"), OWL("ObjectProperty")>>,
           <<prop_uri, RDFS("label"), Title(Replace(prop_name, <<"_">>, <<" ">>))>>,
           <<prop_uri, RDFS("domain"), ns \o Title(rel.left_table)>>,
           <<prop_uri, RDFS("range"), ns \o Title(rel.right_table)>> >>

\* RDFSemanticConverter.convert_from_semantic_model(semantic_model): reading an
\* attribute the model object does not have raises AttributeError
ConvertFromSemanticModel(semantic_model) ==
    LET ns == <<"http://example.org/semantic", "#">>
        ontology_uri == <<"http://example.org/semantic">>
        header == << <<ontology_uri, RDF("type"), OWL("Ontology")>>,
                     <<ontology_uri, RDFS("label"), semantic_model.name \o <<" Ontology">> >>,
                     <<ontology_uri, RDFS("comment"),
                       <<"Ontology generated from semantic model: ">> \o semantic_model.name>> >>
    IN  IF "logical_tables" \notin DOMAIN semantic_model
        THEN [exc |-> "AttributeError", message |-> <<>>]
        ELSE Returned(Graph_parse(<<>>,
                header
                \o Appended([i \in 1..Len(semantic_model.logical_tables) |->
                                TableTriples(ns, semantic_model.logical_tables[i])])
                \o Appended([i \in 1..Len(semantic_model.relationships) |->
                                RelationshipTriples(ns, semantic_model.relationships[i])])))

\* the models passed: one without tables, one with two tables and two relationships
\* between them, and one with one table and three dimensions: the id, one with a type
\* and one without
ExportedModels ==
    { SemanticModel(<<"m">>, NoneStr),
      [SemanticModel(<<"m">>, NoneStr) EXCEPT
        !.tables = << Table(<<"a">>, NoneStr, BaseTable(NoneStr, NoneStr, NoneStr), <<>>),
                      Table(<<"b">>, NoneStr, BaseTable(NoneStr, NoneStr, NoneStr), <<>>) >>,
        !.relationships =
            << Relationship(<<"a", "_", "t", "o", "_", "b">>, <<"a">>, <<"b">>,
                            <<RelationshipColumn(<<"k">>, <<"k">>)>>, "many_to_one", "inner"),
               Relationship(<<"a", "_", "b">>, <<"b">>, <<"a">>,
                            <<RelationshipColumn(<<"k">>, <<"k">>)>>, "one_to_one", "inner") >>],
      [SemanticModel(<<"m">>, NoneStr) EXCEPT
        !.tables = << [Table(<<"t">>, NoneStr, BaseTable(NoneStr, NoneStr, NoneStr), <<>>)
                         EXCEPT !.dimensions =
                            << Dimension(<<"t", "_", "i", "d">>, <<"STRING">>, NoneStr, NoneStr,
                                         TRUE, <<>>),
                               Dimension(<<"x">>, <<"integer">>, NoneStr, NoneStr, FALSE, <<>>),
                               Dimension(<<"y">>, NoneStr, NoneStr, NoneStr, FALSE, <<>>) >>] >>] }

convert_from_semantic_model(semantic_model) ==
    /\ \E r \in {ConvertFromSemanticModel(semantic_model)} :
          rdf_result' = [op |-> "convert_from_semantic_model", args |-> semantic_model,
                         exc |-> r.exc, ret |-> IF r.exc = "" THEN r.value ELSE r.message]
    /\ UNCHANGED <<builder_vars, vq_vars, yaml_vars, classes, properties, graph>>

\* convert_semantic_model_to_rdf(semantic_model, path) followed by
\* convert_rdf_to_semantic_model(path, model_name): the model is exported by one fresh
\* converter, and the triples written are loaded and converted by another one
RoundTrip(semantic_model, model_name) ==
    LET exported == ConvertFromSemanticModel(semantic_model)
        loaded == _extract_ontology_elements(Graph_parse(<<>>, exported.value), <<>>, <<>>)
    IN  IF exported.exc # "" THEN exported
        ELSE ConvertToSemanticModel(loaded.classes, loaded.properties, model_name,
                                    <<"ontology_db">>, <<"semantic">>)

convert_semantic_model_to_rdf_and_back(semantic_model) ==
    /\ \E r \in {RoundTrip(semantic_model, <<"test">>)} :
          rdf_result' = [op |-> "convert_semantic_model_to_rdf_and_back",
                         args |-> semantic_model,
                         exc |-> r.exc, ret |-> IF r.exc = "" THEN r.value ELSE r.message]
    /\ UNCHANGED <<builder_vars, vq_vars, yaml_vars, classes, properties, graph>>

NextRdf ==
    \/ \E rdf_content \in Ontologies : load_rdf_string(rdf_content)
    \/ get_ontology_stats
    \/ \E datatype_uri \in DatatypeUriArgs : map_datatype_to_sql_call(datatype_uri)
    \/ \E sql_type \in SqlTypeArgs : map_sql_to_datatype_call(sql_type)
    \/ \E model_name \in { <<"test">> } : convert_to_semantic_model(model_name)
    \/ \E semantic_model \in ExportedModels :
            convert_from_semantic_model(semantic_model)
    \/ /\ rdf_result.op = "convert_to_semantic_model"
       /\ rdf_result.exc = ""
       /\ convert_from_semantic_model(rdf_result.ret)
    \/ \E semantic_model \in ExportedModels :
            convert_semantic_model_to_rdf_and_back(semantic_model)

SpecRdf == Init /\ [][NextRdf]_vars

\* ================================================================== properties

\* ------------------------------------------------------------------ C1

\* some step is SemanticModel.add_table for a table named `name`, through the builder
\* or on the current model itself
AddsTable(name) ==
    \/ \E primary_key \in PrimaryKeyArgs : add_table(name, primary_key)
    \/ (name \in DirectTableNames /\ SemanticModel_add_table_call(name))

\* C1: SemanticModel.add_table with the name of a table the model already holds
\* leaves the table list as it was: same length, and the stored table keeps the
\* content it was first inserted with; the call returns without an error.
C1_SecondInsertIsNoOp ==
    [][\A name \in TableNames :
          (/\ current_model # 0
           /\ NameExists(models[current_model].tables, name)
           /\ AddsTable(name))
          => /\ result'.exc = ""
             /\ Len(models'[current_model].tables) = Len(models[current_model].tables)
             /\ models'[current_model].tables = models[current_model].tables]_vars

\* add_table returned, and the table stored under its name differs from the table
\* the call was made with: the call was a second insert with other content
C1_Witness ==
    /\ result.op = "add_table"
    /\ result.exc = ""
    /\ current_model # 0
    /\ LET tables == models[current_model].tables
           stored == tables[FirstIndex(tables, result.args.name)]
       IN  /\ stored.primary_key = << Columns(<<>>) >>
           /\ result.args.primary_key = << <<"id">> >>

\* ------------------------------------------------------------------ C2

DistinctNames(items) ==
    \A i, j \in 1..Len(items) : items[i].name = items[j].name => i = j

\* C2: in every model of the builder (each is created empty and changed only by
\* add_table, add_relationship and add_metric, add_dimension and add_verified_query
\* adding no names), the table names are pairwise distinct, and so are the
\* relationship names and the metric names.
C2_NamesUnique ==
    \A k \in 1..Len(models) :
        /\ DistinctNames(models[k].tables)
        /\ DistinctNames(models[k].relationships)
        /\ DistinctNames(models[k].metrics)

\* add_table returned on a model that holds two tables and a metric
C2_Witness ==
    \E k \in 1..Len(models) :
        /\ Len(models[k].tables) = 2
        /\ Len(models[k].metrics) = 1
        /\ result.op = "add_table"
        /\ result.exc = ""

\* ------------------------------------------------------------------ C3

\* some step is one of the builder calls that need a current model
GuardedCall ==
    \/ \E name \in TableNames, primary_key \in PrimaryKeyArgs : add_table(name, primary_key)
    \/ \E table_name \in TableNames, name \in DimensionNames : add_dimension(table_name, name)
    \/ \E name \in RelationshipNames, ends \in RelationshipEnds, kind \in RelationshipKindArgs :
            add_relationship(name, ends[1], ends[2], kind[1], kind[2])
    \/ \E name \in MetricNames, expr \in MetricExprArgs : add_metric(name, expr)
    \/ \E sql \in BuilderSqlTexts : add_verified_query(sql)
    \/ build

\* C3: with no current model, add_table, add_dimension, add_relationship, add_metric,
\* add_verified_query and build each raise NoCurrentModelError and leave the model
\* list and the current-model pointer as they were.
C3_NoCurrentModelRaises ==
    [][(current_model = 0 /\ GuardedCall)
          => /\ result'.exc = "NoCurrentModelError"
             /\ models' = models
             /\ current_model' = 0]_vars

\* build() raised NoCurrentModelError on a builder that has built a model before
C3_Witness ==
    /\ result.op = "build"
    /\ result.exc = "NoCurrentModelError"
    /\ Len(models) > 0
    /\ current_model = 0

\* ------------------------------------------------------------------ C4

\* `model` holds what the calls recorded in `acc` were made with: a table per name
\* add_table was called with, a dimension per add_dimension call on each table, a
\* relationship and a metric per name, and the verified queries in call order
HoldsAccepted(model, acc) ==
    /\ {model.tables[i].name : i \in 1..Len(model.tables)} = acc.tables
    /\ Len(model.tables) = Cardinality(acc.tables)
    /\ \A i \in 1..Len(model.tables) :
            Len(model.tables[i].dimensions) = acc.dimensions[model.tables[i].name]
    /\ \A t \in TableNames \ acc.tables : acc.dimensions[t] = 0
    /\ {model.relationships[i].name : i \in 1..Len(model.relationships)} = acc.relationships
    /\ Len(model.relationships) = Cardinality(acc.relationships)
    /\ {model.metrics[i].name : i \in 1..Len(model.metrics)} = acc.metrics
    /\ Len(model.metrics) = Cardinality(acc.metrics)
    /\ [i \in 1..Len(model.verified_queries) |-> model.verified_queries[i].sql]
         = [i \in 1..Len(acc.verified_queries) |-> << acc.verified_queries[i] >>]

\* C4: build() on a builder with a current model returns that model, which holds
\* exactly what was accepted while it was current, changes no model, and leaves the
\* builder without a current model.
C4_BuildReturnsCurrent ==
    [][(current_model # 0 /\ build)
          => /\ result'.exc = ""
             /\ result'.ret = current_model
             /\ HoldsAccepted(models'[result'.ret], accepted[current_model])
             /\ models' = models
             /\ current_model' = 0]_vars

\* build() returned the second model of the builder, which holds a table
C4_Witness ==
    /\ result.op = "build"
    /\ result.exc = ""
    /\ current_model = 0
    /\ result.ret = 2
    /\ models[1].tables # <<>>
    /\ models[2].tables # <<>>

\* ------------------------------------------------------------------ C5

\* C5: with a current model, add_dimension for a table name the current model does
\* not hold raises TableNotFoundError and changes no model; for a name it holds, the
\* call appends one dimension of the given name to that table and changes nothing
\* else, in this model or another.
C5_AddDimension ==
    [][\A table_name \in TableNames, name \in DimensionNames :
          (current_model # 0 /\ add_dimension(table_name, name))
          => LET before == models[current_model].tables
                 after == models'[current_model].tables
             IN  IF \A i \in 1..Len(before) : before[i].name # table_name
                 THEN /\ result'.exc = "TableNotFoundError"
                      /\ models' = models
                 ELSE /\ result'.exc = ""
                      /\ Len(models') = Len(models)
                      /\ \A k \in 1..Len(models) : k # current_model => models'[k] = models[k]
                      /\ Len(after) = Len(before)
                      /\ \A i \in 1..Len(before) :
                            IF before[i].name = table_name
                            THEN /\ Len(after[i].dimensions) = Len(before[i].dimensions) + 1
                                 /\ SubSeq(after[i].dimensions, 1, Len(before[i].dimensions))
                                        = before[i].dimensions
                                 /\ after[i].dimensions[Len(after[i].dimensions)].name = name
                                 /\ [after[i] EXCEPT !.dimensions = <<>>]
                                        = [before[i] EXCEPT !.dimensions = <<>>]
                            ELSE after[i] = before[i]
                      /\ [models'[current_model] EXCEPT !.tables = <<>>]
                            = [models[current_model] EXCEPT !.tables = <<>>]]_vars

\* add_dimension returned on a model with two tables, one of which has dimensions
C5_Witness ==
    /\ result.op = "add_dimension"
    /\ result.exc = ""
    /\ current_model # 0
    /\ LET tables == models[current_model].tables
       IN  /\ Len(tables) = 2
           /\ \E i, j \in 1..2 : tables[i].dimensions # <<>> /\ tables[j].dimensions = <<>>

\* ------------------------------------------------------------------ C6

\* validate_current_model has just returned: result.ret is its dictionary for the
\* current model
Validated ==
    /\ result.op = "validate_current_model"
    /\ result.exc = ""
    /\ current_model # 0

TableNamesOf(model) == {model.tables[i].name : i \in 1..Len(model.tables)}

\* the number of issue strings that name the relationship
IssuesNaming(issues, rel) ==
    Cardinality({i \in 1..Len(issues) :
                    issues[i][1] = "Relationship " /\ issues[i][2] = Str(rel.name)})

\* the number of ends (left, right) of the relationship that name no table
UnknownEnds(rel, table_names) ==
    (IF rel.left_table \notin table_names THEN 1 ELSE 0)
      + (IF rel.right_table \notin table_names THEN 1 ELSE 0)

\* C6 as stated: a relationship with an unknown left table, right table or both
\* gets exactly one issue string, and a relationship whose tables both exist none.
C6_OneIssuePerRelationship ==
    Validated =>
        LET model == models[current_model]
        IN  \A i \in 1..Len(model.relationships) :
                IssuesNaming(result.ret.issues, model.relationships[i])
                    = IF UnknownEnds(model.relationships[i], TableNamesOf(model)) > 0
                      THEN 1 ELSE 0

\* C6 as the code has it: a relationship gets one issue string per end that names no
\* table of the model (one for an unknown left table, one for an unknown right table,
\* so two when both are unknown), each naming the relationship and the unknown
\* table; a relationship whose tables both exist gets none.
C6_OneIssuePerUnknownEnd ==
    Validated =>
        LET model == models[current_model]
            issues == result.ret.issues
        IN  \A i \in 1..Len(model.relationships) :
                LET rel == model.relationships[i]
                IN  /\ IssuesNaming(issues, rel) = UnknownEnds(rel, TableNamesOf(model))
                    /\ rel.left_table \notin TableNamesOf(model)
                         <=> \E k \in 1..Len(issues) :
                                /\ issues[k][2] = Str(rel.name)
                                /\ issues[k][3] = " references unknown left table: "
                                /\ issues[k][4] = rel.left_table
                    /\ rel.right_table \notin TableNamesOf(model)
                         <=> \E k \in 1..Len(issues) :
                                /\ issues[k][2] = Str(rel.name)
                                /\ issues[k][3] = " references unknown right table: "
                                /\ issues[k][4] = rel.right_table

\* a validated model with a relationship whose two tables are both unknown and a
\* relationship with exactly one unknown table
C6_Witness ==
    /\ Validated
    /\ LET model == models[current_model]
       IN  /\ \E i \in 1..Len(model.relationships) :
                UnknownEnds(model.relationships[i], TableNamesOf(model)) = 2
           /\ \E i \in 1..Len(model.relationships) :
                UnknownEnds(model.relationships[i], TableNamesOf(model)) = 1

\* ------------------------------------------------------------------ C7

\* the table has no primary-key columns: no primary key, or one with no columns
NoPrimaryKeyColumns(table) ==
    table.primary_key = <<>> \/ table.primary_key[1].columns = <<>>

\* C7 as stated: every table with zero dimensions and every table without
\* primary-key columns gets a warning, and a model whose tables all have a dimension
\* and a non-empty primary key gets no warning.
C7_WarningsForEveryTable ==
    Validated =>
        LET model == models[current_model]
            warnings == result.ret.warnings
        IN  /\ \A i \in 1..Len(model.tables) :
                LET table == model.tables[i]
                IN  /\ table.dimensions = <<>>
                         => <<"Table ", table.name, " has no dimensions">> \in Range(warnings)
                    /\ NoPrimaryKeyColumns(table)
                         => <<"Table ", table.name, " has no primary key">> \in Range(warnings)
            /\ (\A i \in 1..Len(model.tables) :
                    /\ model.tables[i].dimensions # <<>>
                    /\ ~NoPrimaryKeyColumns(model.tables[i]))
                 => warnings = <<>>

\* ------------------------------------------------------------------ C8

\* C8: validate_current_model changes neither the models nor the current-model
\* pointer; its issues hold one string per model-level metric whose expr is absent
\* or empty and none for the other metrics; valid is true exactly when there are no
\* issues, whatever the warnings.
C8_MetricIssuesAndValid ==
    [][(current_model # 0 /\ validate_current_model)
          => /\ models' = models
             /\ current_model' = current_model
             /\ result'.exc = ""
             /\ LET metrics == models[current_model].metrics
                    issues == result'.ret.issues
                    NoExpr == {i \in 1..Len(metrics) : metrics[i].expr \in {NoneVal, ""}}
                    About(i) == {k \in 1..Len(issues) :
                                    /\ issues[k][1] = "Metric "
                                    /\ issues[k][2] = Str(metrics[i].name)}
                IN  /\ \A i \in 1..Len(metrics) :
                            Cardinality(About(i)) = IF i \in NoExpr THEN 1 ELSE 0
                    /\ Cardinality({k \in 1..Len(issues) : issues[k][1] = "Metric "})
                            = Cardinality(NoExpr)
                    /\ result'.ret.valid <=> (issues = <<>>)]_vars

\* a validated model with a metric whose expr is empty, a metric with an expr, and a
\* warning
C8_Witness ==
    /\ Validated
    /\ LET metrics == models[current_model].metrics
       IN  /\ \E i \in 1..Len(metrics) : metrics[i].expr = ""
           /\ \E i \in 1..Len(metrics) : metrics[i].expr = "e"
    /\ Len(result.ret.issues) = 1
    /\ result.ret.warnings # <<>>
    /\ ~result.ret.valid

\* ------------------------------------------------------------------ C9

\* the message of the exception holds the word
Contains(message, word) == \E i \in 1..Len(message) : message[i] = word

\* C9 as stated: a VerifiedQuery given an empty or blank sql is refused with
\* VerifiedQueryError sql_cannot_be_empty, one given sql that does not parse is
\* refused with a VerifiedQueryError whose reason contains invalid_sql, one given
\* sql that parses is constructed, and no constructed VerifiedQuery holds an empty
\* or unparsable sql text.
C9_SqlGating ==
    /\ (/\ vq_result.op = "VerifiedQuery"
        /\ vq_result.args.verified_at = NotPassed
        /\ vq_result.args.sql # NotPassed
        /\ vq_result.args.sql[1] # <<>>)
         => LET text == vq_result.args.sql[1][1]
            IN  IF Strip(text) = <<>>
                THEN /\ vq_result.exc = "VerifiedQueryError"
                     /\ vq_result.ret = <<"sql_cannot_be_empty">>
                ELSE IF parse_one(text) # ""
                THEN /\ vq_result.exc = "VerifiedQueryError"
                     /\ Contains(vq_result.ret, "invalid_sql")
                ELSE /\ vq_result.exc = ""
                     /\ vq_result.ret.sql = <<text>>
    /\ \A q \in vq_objects :
            q.sql # <<>> => (Strip(q.sql[1]) # <<>> /\ parse_one(q.sql[1]) = "")

\* ------------------------------------------------------------------ C10

\* a verified_at value was passed to the constructor
VerifiedAtPassed ==
    /\ vq_result.op = "VerifiedQuery"
    /\ vq_result.args.verified_at # NotPassed

ConvertibleInt(v) == v.type = "int" /\ FromTimestampOk(v.val)

DigitString(v) == v.type = "str" /\ IsDigit(v.val)

\* the object was constructed and holds the integer of the value passed
StoredAsInteger(v) ==
    /\ vq_result.exc = ""
    /\ vq_result.ret.verified_at = << IF v.type = "int" THEN v.val ELSE IntOfStr(v.val) >>

NamesOf(items) == [i \in 1..Len(items) |-> items[i].name]

\* from_yaml_string has been applied to the document to_yaml wrote last
Reloaded(key) == yaml_result.op = "from_yaml_string" /\ yaml_result.args = key

\* C11: from_yaml_string(to_yaml(model)) returns a model with the same table,
\* relationship and metric names, the same counts, and the same value in every
\* field, for every model the builder holds.
C11_RoundTrip ==
    Reloaded("tables") =>
        /\ yaml_result.exc = ""
        /\ LET model == yaml_content.model
               loaded == yaml_result.ret
           IN  /\ NamesOf(loaded.tables) = NamesOf(model.tables)
               /\ NamesOf(loaded.relationships) = NamesOf(model.relationships)
               /\ NamesOf(loaded.metrics) = NamesOf(model.metrics)
               /\ Len(loaded.tables) = Len(model.tables)
               /\ Len(loaded.relationships) = Len(model.relationships)
               /\ Len(loaded.metrics) = Len(model.metrics)
               /\ loaded = model

\* a model with a table, a relationship and a metric, whose names read as a bool, a
\* null and an int when written plain, has been written and read back
C11_Witness ==
    /\ Reloaded("tables")
    /\ yaml_result.exc = ""
    /\ yaml_content.model.name = "123"
    /\ \E i \in 1..Len(yaml_content.model.tables) : yaml_content.model.tables[i].name = "no"
    /\ Len(yaml_content.model.relationships) = 1
    /\ \E i \in 1..Len(yaml_content.model.metrics) : yaml_content.model.metrics[i].expr = ""

\* ------------------------------------------------------------------ C12

\* the keys of the top level of the document written last
TopLevelKeys ==
    {yaml_content.document.entries[i][1] : i \in 1..Len(yaml_content.document.entries)}

\* C12 as stated: a document with its tables under logical_tables loads to a model
\* with the same tables as the document with them under tables, and to_yaml writes
\* the table list under the key tables only.
C12_EitherKey ==
    /\ yaml_content # <<>> =>
          "tables" \in TopLevelKeys /\ "logical_tables" \notin TopLevelKeys
    /\ Reloaded("logical_tables") =>
          /\ yaml_result.exc = ""
          /\ yaml_result.ret.tables = yaml_content.model.tables

\* the XSD local name the specification pairs with a semantic type
XsdNameOf(type) ==
    CASE type = <<"STRING">> -> "string" [] type = <<"INTEGER">> -> "integer"
      [] type = <<"DECIMAL">> -> "decimal" [] type = <<"FLOAT">> -> "float"
      [] type = <<"DOUBLE">> -> "double" [] type = <<"BOOLEAN">> -> "boolean"
      [] type = <<"DATE">> -> "date" [] type = <<"TIMESTAMP">> -> "dateTime"
      [] type = <<"TIME">> -> "time" [] OTHER -> "string"

\* the semantic type the specification pairs with an XSD local name
SemanticTypeOf(name) ==
    CASE name = "string" -> "STRING" [] name = "int" -> "INTEGER"
      [] name = "integer" -> "INTEGER" [] name = "decimal" -> "DECIMAL"
      [] name = "float" -> "FLOAT" [] name = "double" -> "DOUBLE"
      [] name = "boolean" -> "BOOLEAN" [] name = "date" -> "DATE"
      [] name = "dateTime" -> "TIMESTAMP" [] name = "time" -> "TIME" [] OTHER -> "STRING"

\* what the forward mapping returns for a URI according to the specification
ExpectedSemanticType(uri) ==
    IF \E n \in XsdNames : uri = XSD(n)
    THEN <<SemanticTypeOf((CHOOSE n \in XsdNames : uri = XSD(n)))>>
    ELSE <<"STRING">>

ForwardMappingAsSpecified ==
    rdf_result.op = "_map_datatype_to_sql"
        => rdf_result.ret = ExpectedSemanticType(rdf_result.args)

\* C13 (as stated): the XSD URIs of string, int, integer, decimal, float, double,
\* boolean, date, dateTime and time map to STRING, INTEGER, INTEGER, DECIMAL, FLOAT,
\* DOUBLE, BOOLEAN, DATE, TIMESTAMP and TIME and every other input to STRING; the
\* inverse maps each of the nine semantic types to its XSD URI and every other input
\* to the XSD string URI.
C13_TypeMapping ==
    /\ ForwardMappingAsSpecified
    /\ rdf_result.op = "_map_sql_to_datatype"
        => rdf_result.ret = IF rdf_result.args \in SemanticTypes
                            THEN XSD(XsdNameOf(rdf_result.args))
                            ELSE XSD("string")

\* C13 (amended): the forward mapping is as stated; the inverse ignores letter case:
\* an input whose upper-cased form is one of the nine semantic types maps to that
\* type's XSD URI, and every other input maps to the XSD string URI.
C13_TypeMappingIgnoringCase ==
    /\ ForwardMappingAsSpecified
    /\ rdf_result.op = "_map_sql_to_datatype"
        => rdf_result.ret = IF Upper(rdf_result.args) \in SemanticTypes
                            THEN XSD(XsdNameOf(Upper(rdf_result.args)))
                            ELSE XSD("string")

\* a lower-case type name has been mapped to the URI of its type
C13_Witness ==
    /\ rdf_result.op = "_map_sql_to_datatype"
    /\ rdf_result.args = <<"timestamp">>
    /\ rdf_result.ret = XSD("dateTime")

\* what a converter that has loaded nothing else records for an ontology
LoadedAlone(rdf_content) == _extract_ontology_elements(Graph_parse(<<>>, rdf_content), <<>>, <<>>)

\* C14: loading fully replaces prior loaded state: after a load the recorded classes
\* and properties are exactly those of the ontology just loaded, and nothing recorded
\* from an ontology loaded before remains.
C14_LoadReplaces ==
    rdf_result.op = "load_rdf_string"
        => /\ classes = LoadedAlone(rdf_result.args).classes
           /\ properties = LoadedAlone(rdf_result.args).properties
           /\ Len(graph) = Len(rdf_result.args)

\* the last call was a convert_to_semantic_model that returned a model
ModelConverted == rdf_result.op = "convert_to_semantic_model" /\ rdf_result.exc = ""

\* C15: convert_to_semantic_model turns each recorded class into one table named by
\* the lower-cased local name of the class: the model it returns has exactly as many
\* tables as there are recorded classes, and its table names are the lower-cased
\* class names (no classes, no tables).
C15_TablePerClass ==
    ModelConverted
        => /\ Len(rdf_result.ret.tables) = Len(classes)
           /\ NamesOf(rdf_result.ret.tables) = [i \in 1..Len(classes) |-> Lower(classes[i][1])]

\* the name of the synthetic key of a table
IdOf(table_name) == table_name \o <<"_", "i", "d">>

\* C16: every table produced by convert_to_semantic_model has a primary key
\* consisting of the single column <table>_id, and contains a dimension named
\* <table>_id with unique = true and semantic type STRING.
C16_SyntheticKey ==
    ModelConverted
        => \A i \in 1..Len(rdf_result.ret.tables) :
              LET table == rdf_result.ret.tables[i]
              IN  /\ table.primary_key = <<Columns(<<IdOf(table.name)>>)>>
                  /\ \E j \in 1..Len(table.dimensions) :
                        /\ table.dimensions[j].name = IdOf(table.name)
                        /\ table.dimensions[j].unique = TRUE
                        /\ table.dimensions[j].data_type = <<"STRING">>

\* the <<name, type>> pairs of the dimensions the specification gives the table of a
\* class, after the one of its key
ExpectedDimensions(class_name) ==
    LET Applies(prop) ==
            /\ prop[2].type = "datatype"
            /\ \/ prop[2].domain = <<>>
               \/ \E k \in 1..Len(prop[2].domain) : _get_local_name(prop[2].domain[k]) = class_name
        applying == SelectSeq(properties, Applies)
    IN  [j \in 1..Len(applying) |->
            <<applying[j][1],
              IF applying[j][2].range = <<>> THEN <<"STRING">>
              ELSE ExpectedSemanticType(applying[j][2].range[1])>>]

\* the table the conversion builds for the i-th recorded class
BuiltTable(i) ==
    ClassTable(classes[i][1], classes[i][2], properties, <<"ontology_db">>, <<"semantic">>)

\* C17: the table for class C receives one dimension for recorded datatype property P
\* exactly when P's domain set is empty or includes C; the dimension is named after P,
\* its type is the mapping of P's first declared range (STRING when P has no range or
\* an unknown one), and object properties never produce dimensions.
C17_PropertyDimensions ==
    /\ \A i \in 1..Len(classes) :
          [j \in 1..(Len(BuiltTable(i).dimensions) - 1) |->
              <<BuiltTable(i).dimensions[j + 1].name, BuiltTable(i).dimensions[j + 1].data_type>>]
            = ExpectedDimensions(classes[i][1])
    /\ ModelConverted
          => \A t \in 1..Len(rdf_result.ret.tables) :
                \E i \in 1..Len(classes) : rdf_result.ret.tables[t] = BuiltTable(i)

\* a model has been returned in which one table has the dimension of a property
\* declared for its class, typed by the property's range, and the dimension of a
\* property without domain, and another table has only the latter
C17_Witness ==
    /\ ModelConverted
    /\ \E t, u \in 1..Len(rdf_result.ret.tables) :
          /\ [j \in 1..Len(rdf_result.ret.tables[t].dimensions) |->
                <<rdf_result.ret.tables[t].dimensions[j].name,
                  rdf_result.ret.tables[t].dimensions[j].data_type>>]
               = << <<IdOf(<<"a">>), <<"STRING">> >>, << <<"p">>, <<"INTEGER">> >>,
                    << <<"q">>, <<"STRING">> >> >>
          /\ NamesOf(rdf_result.ret.tables[u].dimensions) = <<IdOf(<<"b">>), <<"q">> >>

\* the <<P, D, R>> triples of a recorded object property P with a class D of its
\* domain and a class R of its range, by local names
ObjectTriples ==
    UNION { { <<properties[j][1], _get_local_name(properties[j][2].domain[d]),
                _get_local_name(properties[j][2].range[r])>> :
                d \in 1..Len(properties[j][2].domain), r \in 1..Len(properties[j][2].range) } :
            j \in {k \in 1..Len(properties) : properties[k][2].type = "object"} }

IsRecorded(class_name) == \E i \in 1..Len(classes) : classes[i][1] = class_name

RecordedTriples == {t \in ObjectTriples : IsRecorded(t[2]) /\ IsRecorded(t[3])}

\* <d>_to_<r>_<P>
NameFor(t) == Lower(t[2]) \o <<"_", "t", "o", "_">> \o Lower(t[3]) \o <<"_">> \o t[1]

\* C18: for every recorded object property P and every pair (D, R) of a domain class
\* and a range class of P that are both recorded, convert_to_semantic_model returns a
\* model containing a relationship named <d>_to_<r>_<P> with left table d, right table
\* r, exactly one join-column pair whose columns are both <r>_id, and cardinality
\* many-to-one; a pair in which either class is not recorded produces no relationship.
C18_Relationships ==
    rdf_result.op = "convert_to_semantic_model"
        => /\ \A t \in RecordedTriples :
                /\ rdf_result.exc = ""
                /\ \E i \in 1..Len(rdf_result.ret.relationships) :
                      LET rel == rdf_result.ret.relationships[i]
                      IN  /\ rel.name = NameFor(t)
                          /\ rel.left_table = Lower(t[2])
                          /\ rel.right_table = Lower(t[3])
                          /\ rel.relationship_columns
                               = <<RelationshipColumn(IdOf(Lower(t[3])), IdOf(Lower(t[3])))>>
                          /\ rel.relationship_type = "many_to_one"
           /\ rdf_result.exc = ""
                => \A t \in ObjectTriples \ RecordedTriples :
                      \A i \in 1..Len(rdf_result.ret.relationships) :
                          rdf_result.ret.relationships[i].name # NameFor(t)

\* C19: in the model produced by convert_to_semantic_model, relationship names are
\* unique per (domain class, range class, object property) triple: distinct triples
\* yield distinct relationship names and each yields its own relationship, so that
\* the model has one relationship per distinct triple.
C19_NamePerTriple ==
    rdf_result.op = "convert_to_semantic_model"
        => /\ \A t, u \in RecordedTriples :
                t # u => RelationshipName(t[2], t[3], t[1]) # RelationshipName(u[2], u[3], u[1])
           /\ RecordedTriples # {}
                => /\ rdf_result.exc = ""
                   /\ Len(rdf_result.ret.relationships) = Cardinality(RecordedTriples)

\* the URI convert_from_semantic_model gives a name in its namespace
InNamespace(name) == <<"http://example.org/semantic", "#">> \o name

\* C20: convert_from_semantic_model emits one OWL class per table and, for every
\* dimension of a table whose name does not end in _id, an OWL datatype property whose
\* domain is the table's class and whose range is the XSD type mapped from the
\* dimension's semantic type, xsd:string when the type is unknown or absent; a
\* dimension whose name ends in _id produces no property.
C20_Export ==
    rdf_result.op = "convert_from_semantic_model"
        => /\ rdf_result.exc = ""
           /\ \A i \in 1..Len(rdf_result.args.tables) :
                LET table == rdf_result.args.tables[i]
                    class_uri == InNamespace(Title(table.name))
                IN  /\ <<class_uri, RDF("type"), OWL("Class")>> \in Range(rdf_result.ret)
                    /\ \A j \in 1..Len(table.dimensions) :
                          LET dim == table.dimensions[j]
                              prop_uri == InNamespace(dim.name)
                          IN  IF EndsWith(dim.name, <<"_", "i", "d">>)
                              THEN <<prop_uri, RDF("type"), OWL("DatatypeProperty")>>
                                        \notin Range(rdf_result.ret)
                              ELSE /\ <<prop_uri, RDF("type"), OWL("DatatypeProperty")>>
                                        \in Range(rdf_result.ret)
                                   /\ <<prop_uri, RDFS("domain"), class_uri>> \in Range(rdf_result.ret)
                                   /\ <<prop_uri, RDFS("range"),
                                        IF Upper(dim.data_type) \in SemanticTypes
                                        THEN XSD(XsdNameOf(Upper(dim.data_type)))
                                        ELSE XSD("string")>> \in Range(rdf_result.ret)

\* a name without its "_to_" and without any underscore
Stripped(name) ==
    Replace(Replace(name, <<"_", "t", "o", "_">>, <<>>), <<"_">>, <<>>)

\* C21: convert_from_semantic_model emits one OWL object property for every
\* relationship of the model, named by stripping `_to_` and all underscores from the
\* relationship name, with domain the left table's class and range the right table's
\* class; a model with n relationships yields n object properties, each with exactly
\* that one domain and one range.
C21_ObjectProperties ==
    (rdf_result.op = "convert_from_semantic_model" /\ rdf_result.args.relationships # <<>>)
        => /\ rdf_result.exc = ""
           /\ Cardinality({t \in Range(rdf_result.ret) :
                              t[2] = RDF("type") /\ t[3] = OWL("ObjectProperty")})
                = Len(rdf_result.args.relationships)
           /\ \A i \in 1..Len(rdf_result.args.relationships) :
                LET rel == rdf_result.args.relationships[i]
                    prop_uri == InNamespace(Stripped(rel.name))
                IN  /\ <<prop_uri, RDF("type"), OWL("ObjectProperty")>> \in Range(rdf_result.ret)
                    /\ {t[3] : t \in {u \in Range(rdf_result.ret) :
                                        u[1] = prop_uri /\ u[2] = RDFS("domain")}}
                         = {InNamespace(Title(rel.left_table))}
                    /\ {t[3] : t \in {u \in Range(rdf_result.ret) :
                                        u[1] = prop_uri /\ u[2] = RDFS("range")}}
                         = {InNamespace(Title(rel.right_table))}

\* the number of dimensions of a table whose name does not end in _id
OtherDimensions(table) ==
    Cardinality({j \in 1..Len(table.dimensions) :
                    ~EndsWith(table.dimensions[j].name, <<"_", "i", "d">>)})

\* C22: converting a model to an ontology, loading that ontology into a fresh
\* converter and converting back preserves the number of tables and, counting only
\* dimensions whose name does not end in _id, the number of dimensions of each table.
C22_RoundTripCounts ==
    rdf_result.op = "convert_semantic_model_to_rdf_and_back"
        => /\ rdf_result.exc = ""
           /\ Len(rdf_result.ret.tables) = Len(rdf_result.args.tables)
           /\ \A i \in 1..Len(rdf_result.args.tables) :
                \E j \in 1..Len(rdf_result.ret.tables) :
                    /\ rdf_result.ret.tables[j].name = Lower(rdf_result.args.tables[i].name)
                    /\ OtherDimensions(rdf_result.ret.tables[j])
                         = OtherDimensions(rdf_result.args.tables[i])

\* the insertion policy of add_table on a list: an item whose name the list holds is
\* dropped, any other is appended
FirstWriteWins(before, after, item) ==
    after = IF \E i \in 1..Len(before) : before[i].name = item.name
            THEN before ELSE Append(before, item)

\* add_relationship and add_metric with a name insert as add_table does
NamedInserts ==
    /\ \A name \in RelationshipNames, ends \in RelationshipEnds :
          add_relationship(name, ends[1], ends[2], "many_to_one", "inner")
            => FirstWriteWins(models[current_model].relationships,
                              models'[current_model].relationships,
                              Relationship(name, ends[1], ends[2],
                                           <<RelationshipColumn("id", "id")>>,
                                           "many_to_one", "inner"))
    /\ \A name \in MetricNames, expr \in MetricExprArgs :
          add_metric(name, expr)
            => FirstWriteWins(models[current_model].metrics, models'[current_model].metrics,
                              Metric(name, expr, NoneVal))

\* C23 (as stated): add_relationship and add_metric follow the first-write-wins
\* insertion policy of add_table, keyed by name, except that a metric whose name is
\* absent skips the duplicate check: adding an unnamed metric always appends it.
C23_InsertPolicy ==
    [][current_model # 0
          => /\ NamedInserts
             /\ \A expr \in {NoneVal, "e"} :
                   SemanticModel_add_metric_call(expr)
                     => models'[current_model].metrics
                          = Append(models[current_model].metrics, Metric(NoneVal, expr, NoneVal))]_vars

\* C23 (amended): add_relationship and add_metric follow the first-write-wins
\* insertion policy of add_table, keyed by name, and an absent metric name is a key
\* like any other: an unnamed metric is appended when the model holds no unnamed
\* metric and dropped when it holds one.
C23_InsertPolicyWithAbsentName ==
    [][current_model # 0
          => /\ NamedInserts
             /\ \A expr \in {NoneVal, "e"} :
                   SemanticModel_add_metric_call(expr)
                     => FirstWriteWins(models[current_model].metrics,
                                       models'[current_model].metrics,
                                       Metric(NoneVal, expr, NoneVal))]_vars

\* an unnamed metric has been added to a model that holds a named metric and an
\* unnamed one of another expression, and the model still holds those two
C23_Witness ==
    /\ result.op = "SemanticModel.add_metric"
    /\ result.exc = ""
    /\ current_model # 0
    /\ Len(models[current_model].metrics) = 2
    /\ \E i \in 1..2 :
          /\ models[current_model].metrics[i].name = NoneVal
          /\ models[current_model].metrics[i].expr # result.args.expr

\* the metrics of a model that have no name
Unnamed(model) == {i \in 1..Len(model.metrics) : model.metrics[i].name = NoneVal}

\* C24: when a second unnamed metric is added to a model with add_metric, it is
\* silently dropped: no error is raised and the model holds exactly one unnamed
\* metric, the first one added.
C24_SecondUnnamedDropped ==
    [][(current_model # 0 /\ Unnamed(models[current_model]) # {})
          => \A expr \in {NoneVal, "e"} :
                SemanticModel_add_metric_call(expr)
                  => /\ result'.exc = ""
                     /\ models'[current_model].metrics = models[current_model].metrics
                     /\ Cardinality(Unnamed(models'[current_model])) = 1]_vars

\* a second unnamed metric has been added to a model whose only metric is the first
\* unnamed one
C24_Witness ==
    /\ result.op = "SemanticModel.add_metric"
    /\ result.exc = ""
    /\ current_model # 0
    /\ Len(models[current_model].metrics) = 1
    /\ models[current_model].metrics[1].name = NoneVal
    /\ models[current_model].metrics[1].expr # result.args.expr

\* C25: a second create_model call before build() raises no error and silently
\* replaces the current-model pointer: the model created becomes the current one,
\* every builder mutation changes only the model that is current, build() returns
\* it, and the previously current model is left exactly as it was.
C25_SecondCreateReplaces ==
    [][/\ (current_model # 0 /\ \E name \in ModelNames : create_model(name))
          => /\ result'.exc = ""
             /\ Len(models') = Len(models) + 1
             /\ current_model' = Len(models')
             /\ current_model' # current_model
       /\ \A k \in 1..Len(models) : k # current_model => models'[k] = models[k]
       /\ (current_model # 0 /\ build) => result'.ret = current_model]_vars

\* build() has returned the second model, which holds a table, while the first
\* model holds another one
C25_Witness ==
    /\ result.op = "build"
    /\ result.exc = ""
    /\ result.ret = 2
    /\ NamesOf(models[1].tables) = <<"a">>
    /\ NamesOf(models[2].tables) = <<"b">>

\* C26: with a current model, the builder's add_relationship called with only a
\* name, the two table names and the two column names (relationship_type and
\* join_type left at their defaults) succeeds and adds one relationship with a
\* single join-column pair, many-to-one cardinality and inner join type.
C26_DefaultRelationship ==
    [][\A name \in RelationshipNames, ends \in RelationshipEnds :
          (/\ current_model # 0
           /\ ~NameExists(models[current_model].relationships, name)
           /\ add_relationship(name, ends[1], ends[2], "MANY_TO_ONE", "INNER"))
          => /\ result'.exc = ""
             /\ Len(models'[current_model].relationships)
                  = Len(models[current_model].relationships) + 1
             /\ \E i \in 1..Len(models'[current_model].relationships) :
                   LET rel == models'[current_model].relationships[i]
                   IN  /\ rel.name = name
                       /\ Len(rel.relationship_columns) = 1
                       /\ rel.relationship_type = "many_to_one"
                       /\ rel.join_type = "inner"]_vars

\* C27: after build() has returned a model, validate_current_model() on the same
\* builder, with no create_model or load in between, returns the validation result
\* of the model that was just built.
C27_ValidateAfterBuild ==
    [][(result.op = "build" /\ result.exc = "" /\ validate_current_model)
          => /\ result'.exc = ""
             /\ result'.ret = Validation(models[result.ret])]_vars

\* the index of the first model of a name, 0 when there is none
FirstNamed(name) ==
    IF \E k \in 1..Len(models) : models[k].name = name
    THEN CHOOSE k \in 1..Len(models) :
            models[k].name = name /\ \A j \in 1..(k - 1) : models[j].name # name
    ELSE 0

\* C28: the builder tracks every model by name across builds: a model made current
\* by create_model or load_from_yaml is appended to the model list and stays in it,
\* no call (build included) removes or reorders entries, and get_model(name) returns
\* the first-created model of that name, or None when there is none, also when the
\* same name was created more than once.
C28_ModelsTracked ==
    [][/\ Len(models') >= Len(models)
       /\ \A k \in 1..Len(models) : models'[k].name = models[k].name
       /\ (current_model' # 0 /\ current_model' # current_model)
            => (current_model' = Len(models') /\ Len(models') = Len(models) + 1)
       /\ build => models' = models
       /\ \A name \in ModelNames \cup {"m3"} :
            get_model(name) => (result'.ret = FirstNamed(name) /\ models' = models)]_vars

\* after a build, get_model has returned the first of two models of one name, the
\* second of which was loaded or created later
C28_Witness ==
    /\ result.op = "get_model"
    /\ result.ret = 1
    /\ current_model = 0
    /\ Len(models) >= 2
    /\ models[2].name = result.args
    /\ models[1].tables # <<>>

\* ------------------------------------------------------------------ C29

\* C29: every model from_yaml_string returned is read back from its own to_yaml
\* document without an error and equal to itself, custom instructions with a null
\* list and verified queries without verified_at included.
C29_LoadedModelReloads ==
    Reloaded("tables") => yaml_result.exc = "" /\ yaml_result.ret = yaml_content.model

\* ------------------------------------------------------------------ C30

\* C30: the verified_at of every VerifiedQuery that was constructed with one is an
\* integer datetime.fromtimestamp converts to a calendar time, whether an int or a
\* digit string was passed.
C30_StoredVerifiedAtConvertible ==
    \A q \in vq_objects : q.verified_at # <<>> => FromTimestampOk(q.verified_at[1])

====
